---- MODULE Spec2Model ----
(***************************************************************************)
(* Verification model of the AML scenario simulator.                       *)
(*                                                                         *)
(* The repository holds three variants of the same pipeline:               *)
(*   aml_django_simulator  (Django ORM, the rolling-window peak scan)      *)
(*   backend               (pandas, FastAPI)                               *)
(*   legacy_backend        (pandas, chunked database runs)                 *)
(* Each definition below names the variant it is translated from.          *)
(***************************************************************************)
EXTENDS Integers, Naturals, Sequences, FiniteSets, TLC

VARIABLES
    txns,      \* transactions table: customer -> rows [date, val], in sorted order
    engine,    \* the engine variant that executed: "none" | "django" | "pandas"
    config,    \* the scenario configuration of the last execution
    scan,      \* per customer: the peak-scan result of the last execution
    alerts,    \* the alert list the last scenario execution returned
    phase,     \* "idle" (data being uploaded) | "ran" (a scenario was executed)
    variant,        \* the service variant of the run: "django" | "backend" | "legacy"
    scenarios_run,  \* SimulationRun.scenarios_run
    run_status,     \* SimulationRun.status ("none": no run created yet)
    total_alerts,   \* SimulationRun.total_alerts
    pc,             \* position of execute_run
    sidx,           \* index of the next scenario of the loop over scenarios_run
    batch_i,        \* offset of the next customer batch (legacy chunked run)
    all_alerts,     \* in-memory list all_alerts of execute_run
    next_id,        \* number of alert ids generated so far
    db_alerts,      \* committed rows of table alerts
    db_logs,        \* committed rows of table alert_exclusion_logs
    dataset,        \* input data of the run: "none" | "empty" | "loaded"
    errors,         \* scenario executions that raised: [batch, scenario_id]
    ledger,         \* transactions of the customer of the alert under refinement
    refined,        \* the alert after apply_refinements, with the rule applied
    frame,          \* transaction rows of the filter study
    filtered,       \* the filters applied and the rows they kept
    baseline_alerts, \* alerts of the baseline run under comparison
    refined_alerts, \* alerts of the refined run under comparison
    report,         \* the comparison report
    stored,         \* stored alerts of the baseline run of a risk-gap analysis
    stored_logs,    \* stored exclusion log rows of that run
    gap,            \* the result of analyze_risk_gap
    pending,        \* rows written in the open database transaction of a batch
    data_uploads,   \* table data_uploads: upload -> [status, due]
    customer_rows,  \* table customers: customer_id -> upload_id, or NoRow
    transaction_rows, \* table transactions: rows [customer_id, upload_id]
    alert_rows,     \* table alerts of the cleanup study
    session,        \* the database session of a running cleanup_expired
    purged,         \* customers a committed cleanup has deleted
    usage,          \* value of the user's daily cost key in Redis
    requests,       \* per worker: the check_budget call in progress
    granted,        \* total cost of the requests allowed on the day
    lock_key,       \* the Redis key of the lock: [value, owner], or NoLock
    callers         \* per caller: its position in acquire_lock and its locals

engineVars == <<txns, engine, config, scan, alerts, phase>>

persistVars == <<variant, scenarios_run, run_status, total_alerts, pc, sidx,
                 batch_i, all_alerts, next_id, db_alerts, db_logs, dataset, errors>>

refineVars == <<ledger, refined>>

\* the state of the component studies, which the pipeline actions leave alone
filterVars == <<frame, filtered>>

compareVars == <<baseline_alerts, refined_alerts, report>>

riskVars == <<stored, stored_logs, gap>>

chunkVars == <<pending>>

cleanupVars == <<data_uploads, customer_rows, transaction_rows, alert_rows,
                 session, purged>>

\* the state of the operational services (cleanup, rate limiter, lock)
budgetVars == <<usage, requests, granted>>

lockVars == <<lock_key, callers>>

opsVars == <<cleanupVars, budgetVars, lockVars>>

studyVars == <<refineVars, filterVars, compareVars, riskVars, chunkVars, opsVars>>

vars == <<txns, engine, config, scan, alerts, phase,
          variant, scenarios_run, run_status, total_alerts, pc, sidx,
          batch_i, all_alerts, next_id, db_alerts, db_logs, dataset, errors,
          ledger, refined, frame, filtered,
          baseline_alerts, refined_alerts, report,
          stored, stored_logs, gap, pending,
          data_uploads, customer_rows, transaction_rows, alert_rows,
          session, purged, usage, requests, granted,
          lock_key, callers>>

----------------------------------------------------------------------------
(* Bounds of the model *)

MaxTxns == 3          \* transactions uploaded in total
MaxDay == 2           \* transaction timestamps are days 0..MaxDay
MaxAlerts == 3        \* alerts the engine emits during one run

Customers == {"c1", "c2"}
CustomerOrder == <<"c1", "c2">>
Days == 0..MaxDay
AlertDays == {0, MaxDay}
ScanValues == {-1, 0, 1, 2}  \* numeric value of the aggregated field
AlertValues == {0, 2}
Functions == {"sum", "count", "avg", "max", "min"}
WindowChoices == {0, 1, 2}   \* configured rolling_window_days (0: falsy)
ThresholdValues == {0, 1, 2, 3}

DefaultWindow == 30          \* rolling_window_days or 30

----------------------------------------------------------------------------
(* Numbers.  Aggregates are exact rationals n/d with d > 0 (avg divides);   *)
(* thresholds are integers or +infinity.                                    *)

Rat(n, d) == [n |-> n, d |-> d]
Gt(a, b) == a.n * b.d > b.n * a.d
Ge(a, b) == a.n * b.d >= b.n * a.d
Zero == Rat(0, 1)

Finite(v) == [inf |-> FALSE, v |-> v]
Infinity == [inf |-> TRUE, v |-> 0]
\* aggregated value >= threshold
GeThreshold(a, t) == ~t.inf /\ a.n >= t.v * a.d
\* aggregated value > threshold
GtThreshold(a, t) == ~t.inf /\ a.n > t.v * a.d

RECURSIVE SumSeq(_)
SumSeq(s) == IF s = <<>> THEN 0 ELSE Head(s) + SumSeq(Tail(s))

RECURSIVE MaxSeq(_)
MaxSeq(s) ==
    IF Len(s) = 1 THEN s[1]
    ELSE LET m == MaxSeq(Tail(s)) IN IF Head(s) > m THEN Head(s) ELSE m

RECURSIVE MinSeq(_)
MinSeq(s) ==
    IF Len(s) = 1 THEN s[1]
    ELSE LET m == MinSeq(Tail(s)) IN IF Head(s) < m THEN Head(s) ELSE m

----------------------------------------------------------------------------
(* Django engine: UniversalScenarioEngine.run_scenario_logic                *)

\* items = sorted(zip(dates, values, txns)): rows ordered by (date, value, id).
\* The table is kept in that order; a row's id is its index.
RowLe(a, b) == a.date < b.date \/ (a.date = b.date /\ a.val <= b.val)

RECURSIVE InsertSorted(_, _)
InsertSorted(s, r) ==
    IF s = <<>> THEN <<r>>
    ELSE IF RowLe(r, Head(s)) THEN <<r>> \o s
    ELSE <<Head(s)>> \o InsertSorted(Tail(s), r)

\* rolling_window_days or 30
EffectiveWindow(w) == IF w = 0 THEN DefaultWindow ELSE w

\* for j in range(i, len(items)): append while items[j][0] <= current_window_end,
\* break at the first row after the window.  Returns the indices collected and
\* the value j holds when the loop is left.
RECURSIVE InnerLoop(_, _, _, _)
InnerLoop(items, j, window_end, acc) ==
    IF j > Len(items) THEN [idx |-> acc, j |-> Len(items)]
    ELSE IF items[j].date <= window_end
         THEN InnerLoop(items, j + 1, window_end, Append(acc, j))
         ELSE [idx |-> acc, j |-> j]

\* the aggregate of one window's values
CurrentAgg(fn, window_values) ==
    CASE fn = "sum"   -> Rat(SumSeq(window_values), 1)
      [] fn = "count" -> Rat(Len(window_values), 1)
      [] fn = "avg"   -> Rat(SumSeq(window_values), Len(window_values))
      [] fn = "max"   -> Rat(MaxSeq(window_values), 1)
      [] fn = "min"   -> Rat(MinSeq(window_values), 1)
      [] OTHER        -> Rat(SumSeq(window_values), 1)

\* timezone.now(): later than every transaction of the data set
Now == MaxDay + 1

InitialBest ==
    [max_agg_val |-> Zero, best_window_txns |-> <<>>, best_window_date |-> Now]

\* if current_agg > max_agg_val
UpdatesMaxReversed(cur, best) == Gt(best, cur)
UpdatesMax(cur, best) == Gt(cur, best)

\* one iteration of "for i in range(len(items))"
ScanStep(items, fn, window, i, st) ==
    LET w == InnerLoop(items, i, items[i].date + EffectiveWindow(window), <<>>)
        cur == CurrentAgg(fn, [k \in 1..Len(w.idx) |-> items[w.idx[k]].val])
    IN  IF UpdatesMax(cur, st.max_agg_val)
        THEN [max_agg_val |-> cur,
              best_window_txns |-> w.idx,
              best_window_date |->
                  IF w.j > i THEN items[w.j - 1].date ELSE items[i].date]
        ELSE st

RECURSIVE OuterLoop(_, _, _, _, _)
OuterLoop(items, fn, window, i, st) ==
    IF i > Len(items) THEN st
    ELSE OuterLoop(items, fn, window, i + 1, ScanStep(items, fn, window, i, st))

\* the sliding window scan of one customer group
PeakScan(items, fn, window) == OuterLoop(items, fn, window, 1, InitialBest)


----------------------------------------------------------------------------
(* Scenario configuration and customer reference data *)

\* customer raw_data: the value of the segment field
CustomerSegment == [c \in Customers |-> IF c = "c1" THEN "Retail" ELSE "vip"]

\* str(x).strip().lower() on the strings of the model
StripLower(s) ==
    CASE s \in {"retail", "Retail", "RETAIL "} -> "retail"
      [] s \in {"vip", "VIP"} -> "vip"
      [] OTHER -> s

SegmentLists ==
    { <<>>,
      <<[segment |-> "RETAIL ", threshold |-> 1]>>,
      <<[segment |-> "corporate", threshold |-> 1],
        [segment |-> "Retail", threshold |-> 2]>> }

\* threshold.fixed_value: absent, or a number
FixedChoices ==
    {[present |-> FALSE, v |-> 0]} \cup
    {[present |-> TRUE, v |-> x] : x \in ThresholdValues}

NoSegments == <<>>
FixedUnset == [present |-> FALSE, v |-> 0]

\* a JSON value: a missing key, null, a number or a text
Absent == [kind |-> "absent", v |-> 0, w |-> ""]
Null == [kind |-> "null", v |-> 0, w |-> ""]
Num(x) == [kind |-> "num", v |-> x, w |-> ""]
Text(w) == [kind |-> "text", v |-> 0, w |-> w]

\* customer raw_data: "income" is a number for c1 and missing for c2;
\* "limit" is free text for c1 and a number for c2
CustomerRawData ==
    [c \in Customers |->
        IF c = "c1"
        THEN [income |-> Num(2), limit |-> Text("n/a")]
        ELSE [income |-> Absent, limit |-> Num(1)]]

\* threshold.dynamic.formula: "" or an arithmetic expression over the name
\* reference_field, numbers and other names
NoFormula == [op |-> "", l |-> Num(0), r |-> Num(0)]
Ref == [kind |-> "reference_field", v |-> 0, w |-> ""]
Name == [kind |-> "name", v |-> 0, w |-> "income"]
Formulas ==
    { NoFormula,
      [op |-> "*", l |-> Ref, r |-> Num(2)],      \* reference_field * 2
      [op |-> "/", l |-> Num(4), r |-> Ref],      \* 4 / reference_field
      [op |-> "+", l |-> Name, r |-> Num(1)] }    \* income + 1

\* threshold.dynamic
Dynamic(rf, f, fb, mn, mx) ==
    [reference_field |-> rf, formula |-> f, fallback_value |-> fb,
     min_threshold |-> mn, max_threshold |-> mx]

NoDynamic == Dynamic("", NoFormula, Absent, Absent, Absent)

Config(fn, w, tt, fx, sg, ce, mt, vm) ==
    [function |-> fn, rolling_window_days |-> w, threshold_type |-> tt,
     fixed_value |-> fx, segment_values |-> sg,
     count_enabled |-> ce, min_transactions |-> mt,
     calculate_velocity_metrics |-> vm,
     dynamic |-> NoDynamic]

NoConfig == Config("sum", 0, "fixed", FixedUnset, NoSegments, FALSE, 1, FALSE)

\* configurations of the peak-scan study: every function and window
ScanConfigs ==
    {Config(fn, w, "fixed", FixedUnset, NoSegments, FALSE, 1, FALSE) :
        fn \in Functions, w \in WindowChoices}

\* count_threshold: disabled, or enabled with min_transactions 1 or 2
CountChoices == {<<FALSE, 1>>, <<TRUE, 1>>, <<TRUE, 2>>}

FixedConfigs ==
    {Config(fn, 0, "fixed", fx, NoSegments, ct[1], ct[2], FALSE) :
        fn \in Functions, fx \in FixedChoices, ct \in CountChoices}
    \cup
    {Config(fn, wv[1], "fixed", fx, NoSegments, FALSE, 1, wv[2]) :
        fn \in Functions, fx \in FixedChoices, wv \in {<<0, TRUE>>, <<1, FALSE>>}}

SegmentConfigs ==
    {Config(fn, 0, "segment", FixedUnset, sg, FALSE, 1, FALSE) :
        fn \in Functions, sg \in SegmentLists}

ReferenceFields == {"", "income", "limit"}
\* (min_threshold, max_threshold)
BoundChoices == {<<Absent, Absent>>, <<Num(3), Absent>>, <<Absent, Num(1)>>}

DynamicConfigs ==
    {[Config(fn, 0, "dynamic", FixedUnset, NoSegments, FALSE, 1, FALSE)
        EXCEPT !.dynamic = Dynamic(rf, f, fb, b[1], b[2])] :
        fn \in {"sum", "max"}, rf \in ReferenceFields, f \in Formulas,
        fb \in {Absent, Num(1), Num(3)}, b \in BoundChoices}
    \cup
    {[Config("sum", 0, "dynamic", fx, NoSegments, FALSE, 1, FALSE)
        EXCEPT !.dynamic = Dynamic(rf, f, Null, Absent, Absent)] :
        fx \in {FixedUnset, [present |-> TRUE, v |-> 2]},
        rf \in {"", "income"}, f \in Formulas}

AlertConfigs == FixedConfigs \cup SegmentConfigs \cup DynamicConfigs

\* the pandas engines read neither count_threshold nor enrichment
PandasConfigs ==
    {Config(fn, 0, "fixed", [present |-> TRUE, v |-> x], NoSegments, FALSE, 1, FALSE) :
        fn \in Functions, x \in ThresholdValues}
    \cup SegmentConfigs

\* legacy engine with aggregation.time_window set (rolling window in days)
LegacyConfigs ==
    {Config(fn, 1, "fixed", [present |-> TRUE, v |-> x], NoSegments, FALSE, 1, FALSE) :
        fn \in Functions, x \in ThresholdValues \ {0}}

----------------------------------------------------------------------------
(* Django engine: thresholds and alert generation *)

\* calculate_segment_threshold: first configured segment equal, ignoring case
\* and surrounding blanks, to the customer's segment; no match: infinity
RECURSIVE SegmentLookup(_, _)
SegmentLookup(segment_values, customer_segment) ==
    IF segment_values = <<>> THEN Infinity
    ELSE IF StripLower(Head(segment_values).segment) = StripLower(customer_segment)
         THEN Finite(Head(segment_values).threshold)
         ELSE SegmentLookup(Tail(segment_values), customer_segment)

calculate_segment_threshold(cfg, c) ==
    SegmentLookup(cfg.segment_values, CustomerSegment[c])

DefaultFallback == 50000     \* dynamic_cfg.get('fallback_value', 50000)
DynamicErrorDefault == 10000 \* threshold_cfg.get('fixed_value', 10000)

Raised == [raised |-> TRUE, v |-> 0]
Value(x) == [raised |-> FALSE, v |-> x]

\* float(x) of a configured or stored value, x absent read as dflt
Float(x, dflt) ==
    CASE x.kind = "num"    -> Value(x.v)
      [] x.kind = "absent" -> Value(dflt)
      [] OTHER             -> Raised         \* None, free text

\* one operand of the formula after formula.replace('reference_field', str(base_val))
Operand(o, base_val) ==
    CASE o.kind = "reference_field" -> Value(base_val)
      [] o.kind = "num"             -> Value(o.v)
      [] OTHER                      -> Raised   \* NameError

\* float(eval(calc_formula)); the quotients of the study are whole numbers
Eval(f, base_val) ==
    LET l == Operand(f.l, base_val)
        r == Operand(f.r, base_val)
    IN  IF l.raised \/ r.raised THEN Raised
        ELSE CASE f.op = "*" -> Value(l.v * r.v)
               [] f.op = "+" -> Value(l.v + r.v)
               [] f.op = "/" -> IF r.v = 0 THEN Raised     \* ZeroDivisionError
                                ELSE Value(l.v \div r.v)
               [] OTHER      -> Raised                     \* SyntaxError

Max2(a, b) == IF a >= b THEN a ELSE b
Min2(a, b) == IF a <= b THEN a ELSE b

\* "except Exception: return fallback_value", written as the constant 0
FormulaErrorThresholdZero(fallback_value) == Value(0)

\* "except Exception: return fallback_value"
FormulaErrorThreshold(fallback_value) == Value(fallback_value)

\* calculate_dynamic_threshold: the threshold, or Raised when the call raises
calculate_dynamic_threshold(dynamic_cfg, c) ==
    LET fallback_value == Float(dynamic_cfg.fallback_value, DefaultFallback)
        reference == IF dynamic_cfg.reference_field = "income"
                     THEN CustomerRawData[c].income
                     ELSE CustomerRawData[c].limit
        base_val == Float(reference, 0)
        result == Eval(dynamic_cfg.formula, base_val.v)
        lo == IF dynamic_cfg.min_threshold.kind = "num"
              THEN Max2(dynamic_cfg.min_threshold.v, result.v) ELSE result.v
        hi == IF dynamic_cfg.max_threshold.kind = "num"
              THEN Min2(dynamic_cfg.max_threshold.v, lo) ELSE lo
    IN  IF fallback_value.raised THEN Raised
        ELSE IF dynamic_cfg.reference_field = "" \/ dynamic_cfg.formula.op = ""
             THEN Value(fallback_value.v)
        ELSE IF base_val.raised \/ result.raised
             THEN FormulaErrorThreshold(fallback_value.v)
        ELSE Value(Max2(0, hi))

\* threshold_val of one customer
ThresholdVal(cfg, c) ==
    CASE cfg.threshold_type = "dynamic" ->
            LET t == calculate_dynamic_threshold(cfg.dynamic, c)
            IN  IF t.raised
                THEN Finite(IF cfg.fixed_value.present THEN cfg.fixed_value.v
                            ELSE DynamicErrorDefault)
                ELSE Finite(t.v)
      [] cfg.threshold_type = "segment" -> calculate_segment_threshold(cfg, c)
      [] OTHER -> Finite(cfg.fixed_value.v)  \* threshold_cfg.get('fixed_value', 0)

\* count_threshold: "if txn_count < min_txns: continue"
PassesCount(cfg, txn_count) ==
    cfg.count_enabled => txn_count >= cfg.min_transactions

\* int((agg_val / threshold_val) * 50), capped at 100; 50 without a threshold
RiskScore(agg, t) ==
    IF ~t.inf /\ t.v > 0
    THEN LET r == (50 * agg.n) \div (agg.d * t.v) IN IF r > 100 THEN 100 ELSE r
    ELSE 50

\* the alert decision of one customer group: "if agg_val >= threshold_val"
Fires(cfg, s, c) ==
    /\ PassesCount(cfg, Len(s.best_window_txns))
    /\ GeThreshold(s.max_agg_val, ThresholdVal(cfg, c))

\* the alert dict of one customer
BuildAlert(cfg, s, c) ==
    [customer_id |-> c,
     alert_date |-> s.best_window_date,
     aggregated_value |-> s.max_agg_val,
     threshold_used |-> ThresholdVal(cfg, c),
     transaction_count |-> Len(s.best_window_txns),
     involved_transactions |-> s.best_window_txns,
     risk_score |-> RiskScore(s.max_agg_val, ThresholdVal(cfg, c))]

\* enrichment.calculate_velocity_metrics reads the name "values", which the
\* function never binds: building the alert of a customer with more than one
\* transaction raises NameError
BuildRaises(cfg, db, c) == cfg.calculate_velocity_metrics /\ Len(db[c]) > 1

\* grouped_data: the customers with at least one transaction
Grouped(db) == {c \in Customers : Len(db[c]) > 0}

ScanOf(cfg, db, c) == PeakScan(db[c], cfg.function, cfg.rolling_window_days)

RECURSIVE AlertLoop(_, _, _)
AlertLoop(cfg, db, order) ==
    IF order = <<>> THEN <<>>
    ELSE LET c == Head(order)
             s == ScanOf(cfg, db, c)
         IN  IF c \in Grouped(db) /\ Fires(cfg, s, c)
             THEN <<BuildAlert(cfg, s, c)>> \o AlertLoop(cfg, db, Tail(order))
             ELSE AlertLoop(cfg, db, Tail(order))

\* run_scenario_logic: the alert list, or [] when the body raised
run_scenario_logic(cfg, db) ==
    IF \E c \in Grouped(db) : Fires(cfg, ScanOf(cfg, db, c), c) /\ BuildRaises(cfg, db, c)
    THEN <<>>
    ELSE AlertLoop(cfg, db, CustomerOrder)

----------------------------------------------------------------------------
(* pandas engines (backend, legacy_backend): group-by aggregation,          *)
(* ThresholdProcessor, AlertConditionEvaluator                              *)

SegmentDefault == 0      \* SegmentBasedThreshold.default

\* aggregate_data without a time window: one row per customer
GroupByAggregate(method, items) ==
    LET column == [k \in 1..Len(items) |-> items[k].val]
    IN  CASE method = "sum"   -> Rat(SumSeq(column), 1)
          [] method = "count" -> Rat(Len(column), 1)
          [] method = "avg"   -> Rat(SumSeq(column), Len(column))
          [] method = "max"   -> Rat(MaxSeq(column), 1)
          [] method = "min"   -> Rat(MinSeq(column), 1)

\* series.map(seg.values): exact key match
RECURSIVE ExactLookup(_, _)
ExactLookup(segment_values, customer_segment) ==
    IF segment_values = <<>> THEN [found |-> FALSE, v |-> 0]
    ELSE IF Head(segment_values).segment = customer_segment
         THEN [found |-> TRUE, v |-> Head(segment_values).threshold]
         ELSE ExactLookup(Tail(segment_values), customer_segment)

\* apply_thresholds: fixed_value, or map(values).fillna(default)
apply_thresholds(cfg, c) ==
    IF cfg.threshold_type = "segment"
    THEN LET m == ExactLookup(cfg.segment_values, CustomerSegment[c])
         IN  IF m.found THEN Finite(m.v) ELSE Finite(SegmentDefault)
    ELSE Finite(cfg.fixed_value.v)

\* evaluate_condition: data[data['aggregated_value'] > data['threshold']]
evaluate_condition(agg, t) == GtThreshold(agg, t)

PandasAlert(cfg, db, c) ==
    [customer_id |-> c,
     alert_date |-> Now,
     aggregated_value |-> GroupByAggregate(cfg.function, db[c]),
     threshold_used |-> apply_thresholds(cfg, c),
     transaction_count |-> 0,
     involved_transactions |-> <<>>,
     risk_score |-> 25]

RECURSIVE PandasLoop(_, _, _)
PandasLoop(cfg, db, order) ==
    IF order = <<>> THEN <<>>
    ELSE LET c == Head(order)
         IN  IF /\ c \in Grouped(db)
                /\ evaluate_condition(GroupByAggregate(cfg.function, db[c]),
                                      apply_thresholds(cfg, c))
             THEN <<PandasAlert(cfg, db, c)>> \o PandasLoop(cfg, db, Tail(order))
             ELSE PandasLoop(cfg, db, Tail(order))

pandas_execute(cfg, db) == PandasLoop(cfg, db, CustomerOrder)

----------------------------------------------------------------------------
(* legacy engine: AggregationProcessor._apply_rolling_window                *)

\* rows of the customer inside [txn_date - window_days, txn_date]
TrailingWindow(items, i, window_days) ==
    SelectSeq([k \in 1..Len(items) |-> k],
              LAMBDA k : /\ items[k].date >= items[i].date - window_days
                         /\ items[k].date <= items[i].date)

\* sum | count | mean; any other method sums
RollingAgg(method, window_values) ==
    CASE method = "sum"   -> Rat(SumSeq(window_values), 1)
      [] method = "count" -> Rat(Len(window_values), 1)
      [] method = "mean"  -> Rat(SumSeq(window_values), Len(window_values))
      [] OTHER            -> Rat(SumSeq(window_values), 1)

\* one result row per transaction of the customer
RollingRow(cfg, items, c, i) ==
    LET w == TrailingWindow(items, i, cfg.rolling_window_days)
    IN  [customer_id |-> c,
         alert_date |-> Now,
         aggregated_value |->
             RollingAgg(cfg.function, [k \in 1..Len(w) |-> items[w[k]].val]),
         threshold_used |-> apply_thresholds(cfg, c),
         transaction_count |-> Len(w),
         involved_transactions |-> w,
         risk_score |-> 25]

\* rows kept by apply_thresholds (>=) and then evaluate_condition (>)
RollingRows(cfg, items, c) ==
    SelectSeq([i \in 1..Len(items) |-> RollingRow(cfg, items, c, i)],
              LAMBDA r : /\ GeThreshold(r.aggregated_value, r.threshold_used)
                         /\ evaluate_condition(r.aggregated_value, r.threshold_used))

RECURSIVE LegacyLoop(_, _, _)
LegacyLoop(cfg, db, order) ==
    IF order = <<>> THEN <<>>
    ELSE RollingRows(cfg, db[Head(order)], Head(order))
            \o LegacyLoop(cfg, db, Tail(order))

legacy_execute(cfg, db) == LegacyLoop(cfg, db, CustomerOrder)

----------------------------------------------------------------------------
(* Actions of the engine specifications *)

TotalTxns == Len(txns["c1"]) + Len(txns["c2"])

InitEngine ==
    /\ txns = [c \in Customers |-> <<>>]
    /\ engine = "none"
    /\ config = NoConfig
    /\ scan = [c \in Customers |-> InitialBest]
    /\ alerts = <<>>
    /\ phase = "idle"

\* no simulation run exists; the alert tables are empty
InitRun ==
    /\ variant = "none"
    /\ scenarios_run = <<>>
    /\ run_status = "none"
    /\ total_alerts = 0
    /\ pc = "idle"
    /\ sidx = 1
    /\ batch_i = 0
    /\ all_alerts = <<>>
    /\ next_id = 0
    /\ db_alerts = <<>>
    /\ db_logs = <<>>
    /\ dataset = "none"
    /\ errors = {}

\* no alert has been refined; the transaction ledger of the study is empty
InitRefine ==
    /\ ledger = <<>>
    /\ refined = [variant |-> "none"]

\* nothing has been filtered
InitFilter ==
    /\ frame = <<>>
    /\ filtered = [variant |-> "none"]

\* nothing has been compared
InitCompare ==
    /\ baseline_alerts = <<>>
    /\ refined_alerts = <<>>
    /\ report = [variant |-> "none"]

\* no risk-gap analysis has been made
InitRisk ==
    /\ stored = <<>>
    /\ stored_logs = <<>>
    /\ gap = [variant |-> "none"]

\* no database transaction is open
NoPending == [stage |-> "none", alerts |-> <<>>, logs |-> <<>>]

InitChunk == pending = NoPending

\* the cleanup study starts on empty tables, with no cleanup running
TtlUploads == {"u1", "u2"}
NoRow == "none"
NullId == "NULL"

TableView(uploads, customers, transactions, alert_list) ==
    [uploads |-> uploads, customers |-> customers,
     transactions |-> transactions, alerts |-> alert_list]

EmptyTables ==
    TableView([u \in TtlUploads |-> [status |-> "none", due |-> FALSE]],
              [c \in Customers |-> NoRow], {}, <<>>)

NoSession == [step |-> 0, dry_run |-> FALSE, expired_ids |-> {}, view |-> EmptyTables]

InitCleanup ==
    /\ data_uploads = EmptyTables.uploads
    /\ customer_rows = EmptyTables.customers
    /\ transaction_rows = {}
    /\ alert_rows = <<>>
    /\ session = NoSession
    /\ purged = {}

\* the rate limiter study: no usage recorded for the day, no request in flight
Workers == {"w1", "w2"}
IdleRequest == [pc |-> "idle", cost |-> 0, current_usage |-> 0]

InitBudget ==
    /\ usage = 0
    /\ requests = [w \in Workers |-> IdleRequest]
    /\ granted = 0

\* the lock study: the lock key does not exist, no caller is inside acquire_lock
Callers == {"a", "b"}
NoLock == [value |-> "", owner |-> "none"]
NoValue == ""
OutsideLock == [pc |-> "out", identifier |-> NoValue, current_value |-> NoValue]

InitLock ==
    /\ lock_key = NoLock
    /\ callers = [p \in Callers |-> OutsideLock]

Init ==
    /\ InitEngine /\ InitRun /\ InitRefine /\ InitFilter /\ InitCompare /\ InitRisk
    /\ InitChunk /\ InitCleanup /\ InitBudget /\ InitLock

\* a transaction row is ingested for customer c
Upload(c, d, v) ==
    /\ phase = "idle"
    /\ TotalTxns < MaxTxns
    /\ txns' = [txns EXCEPT ![c] = InsertSorted(@, [date |-> d, val |-> v])]
    /\ UNCHANGED <<engine, config, scan, alerts, phase>>
    /\ UNCHANGED persistVars
    /\ UNCHANGED studyVars

\* UniversalScenarioEngine.run_scenario_logic (Django) on the stored data
ExecuteScenario(cfg) ==
    /\ phase = "idle"
    /\ phase' = "ran"
    /\ engine' = "django"
    /\ config' = cfg
    /\ scan' = [c \in Customers |->
                  IF c \in Grouped(txns) THEN ScanOf(cfg, txns, c) ELSE InitialBest]
    /\ alerts' = run_scenario_logic(cfg, txns)
    /\ UNCHANGED txns
    /\ UNCHANGED persistVars
    /\ UNCHANGED studyVars

\* UniversalScenarioEngine.execute (pandas) on the stored data
PandasExecuteScenario(cfg) ==
    /\ phase = "idle"
    /\ phase' = "ran"
    /\ engine' = "pandas"
    /\ config' = cfg
    /\ scan' = [c \in Customers |->
                  IF c \in Grouped(txns)
                  THEN [InitialBest EXCEPT
                          !.max_agg_val = GroupByAggregate(cfg.function, txns[c])]
                  ELSE InitialBest]
    /\ alerts' = pandas_execute(cfg, txns)
    /\ UNCHANGED txns
    /\ UNCHANGED persistVars
    /\ UNCHANGED studyVars

\* UniversalScenarioEngine.execute (legacy, rolling time window)
LegacyExecuteScenario(cfg) ==
    /\ phase = "idle"
    /\ phase' = "ran"
    /\ engine' = "legacy"
    /\ config' = cfg
    /\ scan' = [c \in Customers |-> InitialBest]
    /\ alerts' = legacy_execute(cfg, txns)
    /\ UNCHANGED txns
    /\ UNCHANGED persistVars
    /\ UNCHANGED studyVars

\* the peak scan of one customer, every function and window
NextScan ==
    \/ \E d \in Days, v \in ScanValues : Upload("c1", d, v)
    \/ \E cfg \in ScanConfigs : ExecuteScenario(cfg)

SpecScan == Init /\ [][NextScan]_vars

\* thresholds and alert generation over two customers
NextAlert ==
    \/ \E c \in Customers, d \in AlertDays, v \in AlertValues : Upload(c, d, v)
    \/ \E cfg \in AlertConfigs : ExecuteScenario(cfg)
    \/ \E cfg \in PandasConfigs : PandasExecuteScenario(cfg)
    \/ \E cfg \in LegacyConfigs : LegacyExecuteScenario(cfg)

SpecAlert == Init /\ [][NextAlert]_vars

----------------------------------------------------------------------------
(* Properties of the peak scan and of alert generation *)

Ran(e) == phase = "ran" /\ engine = e

\* indices of the candidate window [t_i, t_i + window_days] started at row i
CandidateWindow(items, i, window_days) ==
    SelectSeq([k \in 1..Len(items) |-> k],
              LAMBDA k : /\ k >= i
                         /\ items[k].date >= items[i].date
                         /\ items[k].date <= items[i].date + window_days)

CandidateAggregate(items, i, cfg) ==
    LET w == CandidateWindow(items, i, EffectiveWindow(cfg.rolling_window_days))
    IN  CurrentAgg(cfg.function, [k \in 1..Len(w) |-> items[w[k]].val])

\* the smallest start index whose candidate window attains the maximum
FirstMaxIndex(items, cfg) ==
    CHOOSE i \in 1..Len(items) :
        /\ \A k \in 1..Len(items) :
              Ge(CandidateAggregate(items, i, cfg), CandidateAggregate(items, k, cfg))
        /\ \A k \in 1..(i - 1) :
              Gt(CandidateAggregate(items, i, cfg), CandidateAggregate(items, k, cfg))

AlertsOf(c) == {k \in 1..Len(alerts) : alerts[k].customer_id = c}

C6_FirstMaxWindowReported ==
    Ran("django") =>
        \A c \in Grouped(txns) :
            scan[c].best_window_txns =
                CandidateWindow(txns[c], FirstMaxIndex(txns[c], config),
                                EffectiveWindow(config.rolling_window_days))

\* C7: an alert is emitted for a customer group if and only if its aggregated
\* value is >= the resolved threshold and, when a count threshold is
\* configured, its transaction count is >= min_transactions.
C7_AlertIffQualifies ==
    (Ran("django") \/ Ran("pandas")) =>
        \A c \in Grouped(txns) :
            (AlertsOf(c) # {}) <=>
                /\ GeThreshold(scan[c].max_agg_val,
                               IF engine = "django" THEN ThresholdVal(config, c)
                                                    ELSE apply_thresholds(config, c))
                /\ (config.count_enabled =>
                       Len(scan[c].best_window_txns) >= config.min_transactions)

\* C8: with a fixed threshold whose fixed_value is unset or zero, a customer
\* whose aggregated value is zero gets no alert.
C8_NoAlertAtZero ==
    (/\ Ran("django")
     /\ config.threshold_type = "fixed"
     /\ (~config.fixed_value.present \/ config.fixed_value.v = 0)) =>
        \A c \in Grouped(txns) : scan[c].max_agg_val.n = 0 => AlertsOf(c) = {}

\* no configured segment equals the customer's segment, compared leniently
Unmatched(cfg, c) ==
    \A k \in 1..Len(cfg.segment_values) :
        StripLower(cfg.segment_values[k].segment) # StripLower(CustomerSegment[c])

\* C9: under a segment threshold, a customer whose segment matches none of the
\* configured segments never gets an alert, whatever the aggregated value.
C9_UnmatchedSegmentNeverAlerts ==
    (phase = "ran" /\ config.threshold_type = "segment") =>
        \A c \in Customers : Unmatched(config, c) => AlertsOf(c) = {}

\* a customer group qualifies when some window of it reaches the threshold
QualifiesForAlert(c) ==
    /\ c \in Grouped(txns)
    /\ IF engine = "legacy"
       THEN \E i \in 1..Len(txns[c]) :
               GtThreshold(RollingRow(config, txns[c], c, i).aggregated_value,
                           apply_thresholds(config, c))
       ELSE /\ GeThreshold(scan[c].max_agg_val, ThresholdVal(config, c))
            /\ (config.count_enabled =>
                   Len(scan[c].best_window_txns) >= config.min_transactions)

\* C10: one execution of a scenario emits exactly one alert for each
\* qualifying customer group and none for any other group.
C10_OneAlertPerQualifyingGroup ==
    (Ran("django") \/ Ran("legacy")) =>
        \A c \in Customers :
            Cardinality(AlertsOf(c)) = IF QualifiesForAlert(c) THEN 1 ELSE 0

\* n/d (n >= 0, d > 0) rounded to the nearest integer, ties to the even one
RoundNearest(n, d) ==
    LET q == n \div d
        r == n % d
    IN  IF 2 * r > d THEN q + 1
        ELSE IF 2 * r < d THEN q
        ELSE IF q % 2 = 0 THEN q ELSE q + 1

\* min(100, round(aggregated_value / threshold * 50)) when threshold > 0, else 50
SpecifiedRiskScore(agg, t) ==
    IF ~t.inf /\ t.v > 0
    THEN LET r == RoundNearest(50 * agg.n, agg.d * t.v) IN IF r > 100 THEN 100 ELSE r
    ELSE 50

\* C11: every emitted alert has risk_score = min(100, round(aggregated_value /
\* threshold * 50)) when its threshold is > 0, and 50 otherwise.
C11_RiskScoreFormula ==
    (Ran("django") \/ Ran("pandas")) =>
        \A k \in 1..Len(alerts) :
            alerts[k].risk_score =
                SpecifiedRiskScore(alerts[k].aggregated_value, alerts[k].threshold_used)

\* C15: the transaction subset, transaction count and window end timestamp
\* reported for a customer group are those of the window that produced the
\* reported maximum: a window is reported, the reported aggregate equals the
\* aggregate over the reported transactions, and the reported end date is the
\* timestamp of the last transaction of that window.
C15_ReportedWindowIsPeakWindow ==
    Ran("django") =>
        \A c \in Grouped(txns) :
            LET w == scan[c].best_window_txns
                agg == CurrentAgg(config.function, [k \in 1..Len(w) |-> txns[c][w[k]].val])
            IN  /\ w # <<>>
                /\ Ge(scan[c].max_agg_val, agg) /\ Ge(agg, scan[c].max_agg_val)
                /\ scan[c].best_window_date = txns[c][w[Len(w)]].date


\* the formula cannot be evaluated for customer c: reference_field or formula
\* is missing, the customer's reference value is not a number, or the
\* expression raises
FormulaFails(dynamic_cfg, c) ==
    \/ dynamic_cfg.reference_field = ""
    \/ dynamic_cfg.formula.op = ""
    \/ Float(IF dynamic_cfg.reference_field = "income"
             THEN CustomerRawData[c].income ELSE CustomerRawData[c].limit, 0).raised
    \/ Eval(dynamic_cfg.formula,
            Float(IF dynamic_cfg.reference_field = "income"
                  THEN CustomerRawData[c].income ELSE CustomerRawData[c].limit, 0).v).raised

HasAlert(c) == \E k \in 1..Len(alerts) : alerts[k].customer_id = c

\* C18: with a dynamic threshold whose fallback value is configured, a customer
\* for whom the formula cannot be evaluated (or whose configuration lacks
\* reference_field or formula) is still decided: they are alerted exactly when
\* their peak aggregate reaches the fallback value, and the alert records the
\* fallback value as the threshold used.
C18_DynamicFallback ==
    (/\ Ran("django")
     /\ config.threshold_type = "dynamic"
     /\ config.dynamic.fallback_value.kind = "num") =>
        \A c \in Grouped(txns) :
            FormulaFails(config.dynamic, c) =>
                LET fallback == Finite(config.dynamic.fallback_value.v)
                IN  /\ HasAlert(c) <=> GeThreshold(scan[c].max_agg_val, fallback)
                    /\ \A k \in 1..Len(alerts) :
                          alerts[k].customer_id = c =>
                              alerts[k].threshold_used = fallback

\* a formula that raises for one customer (4 / reference_field with no income
\* on record) and evaluates for the other; the first is alerted at the fallback
C18_Witness ==
    /\ Ran("django")
    /\ config.threshold_type = "dynamic"
    /\ config.dynamic.fallback_value.kind = "num"
    /\ config.dynamic.reference_field = "income"
    /\ config.dynamic.formula.op = "/"
    /\ FormulaFails(config.dynamic, "c2")
    /\ ~FormulaFails(config.dynamic, "c1")
    /\ HasAlert("c2")
    /\ Grouped(txns) = Customers

----------------------------------------------------------------------------
(* Simulation runs: refinement layer, deduplication, persistence            *)

Variants == {"django", "backend", "legacy"}
ScenarioLists == {<<"s1">>, <<"s1", "s2">>}

\* alert_date: a calendar day and a time of day
Timestamps ==
    {[day |-> 0, hour |-> 0], [day |-> 0, hour |-> 1], [day |-> 1, hour |-> 0]}
\* datetime.date()
DateOf(ts) == ts.day

\* contexts EventDetector.detect_event_context returns for lookback transactions
EduVerified == [type |-> "education", is_verified |-> TRUE, amount_reasonable |-> TRUE]
EduUnverified == [type |-> "education", is_verified |-> FALSE, amount_reasonable |-> TRUE]
LoanPayment == [type |-> "loan", is_verified |-> TRUE, amount_reasonable |-> TRUE]

\* the lookback transactions of an alert, as the contexts detected on them
Lookbacks == {<<>>, <<LoanPayment, EduVerified>>, <<EduUnverified, EduVerified>>}

RuleEducation ==
    [rule_id |-> "r_edu", type |-> "event_based", excluded_events |-> {"education"}]
RuleLoan ==
    [rule_id |-> "r_loan", type |-> "event_based", excluded_events |-> {"loan"}]
RuleAny ==
    [rule_id |-> "r_any", type |-> "event_based",
     excluded_events |-> {"education", "loan"}]
RuleOther ==
    [rule_id |-> "r_other", type |-> "behavioural", excluded_events |-> {"loan"}]
AllRules == {RuleEducation, RuleLoan, RuleAny, RuleOther}

\* config.refinements of a scenario
RuleLists ==
    {<<>>, <<RuleLoan>>, <<RuleEducation, RuleLoan>>, <<RuleOther, RuleAny>>}

NoReason == [prefix |-> "", type |-> ""]

\* f"Verified {type} transaction to {beneficiary}" | f"Legitimate {type} transaction"
ExclusionReason(ctx) ==
    IF ctx.type = "education"
    THEN [prefix |-> "Verified", type |-> ctx.type]
    ELSE [prefix |-> "Legitimate", type |-> ctx.type]

\* "for txn in txns": index of the first transaction that justifies the
\* exclusion, 0 when there is none
RECURSIVE FirstMatch(_, _, _)
FirstMatch(lookback, excluded_events, k) ==
    IF k > Len(lookback) THEN 0
    ELSE IF /\ lookback[k].type \in excluded_events
            /\ (lookback[k].type = "education" =>
                   lookback[k].is_verified /\ lookback[k].amount_reasonable)
         THEN k
         ELSE FirstMatch(lookback, excluded_events, k + 1)

\* body of "for alert in alerts" for one rule: the alert afterwards, and
\* whether _write_exclusion_log is called
RefineAlertAgain(rule, alert) ==
    LET k == FirstMatch(alert.lookback, rule.excluded_events, 1)
    IN  IF k = 0 THEN [alert |-> alert, log |-> FALSE]
        ELSE [alert |-> [alert EXCEPT !.excluded = TRUE,
                            !.exclusion_reason = ExclusionReason(alert.lookback[k])],
              log |-> TRUE]
RefineAlert(rule, alert) ==
    IF alert.excluded THEN [alert |-> alert, log |-> FALSE]
    ELSE LET k == FirstMatch(alert.lookback, rule.excluded_events, 1)
         IN  IF k = 0 THEN [alert |-> alert, log |-> FALSE]
             ELSE [alert |-> [alert EXCEPT !.excluded = TRUE,
                                 !.exclusion_reason = ExclusionReason(alert.lookback[k])],
                   log |-> TRUE]

\* rules of another type or without excluded_events are skipped
RuleApplies(rule) == rule.type = "event_based" /\ rule.excluded_events # {}

LogRow(alert, rule_id) ==
    [alert_id |-> alert.alert_id, rule_id |-> rule_id,
     exclusion_reason |-> alert.exclusion_reason]

\* one rule over the alerts from index k on; st = [alerts, logs]; write_ok tells
\* whether AlertExclusionLog.objects.create succeeds (a failure is swallowed)
RECURSIVE ApplyRule(_, _, _, _)
ApplyRule(rule, st, k, write_ok) ==
    IF k > Len(st.alerts) THEN st
    ELSE LET r == RefineAlert(rule, st.alerts[k])
         IN  ApplyRule(rule,
                       [alerts |-> [st.alerts EXCEPT ![k] = r.alert],
                        logs |-> IF r.log /\ write_ok
                                 THEN Append(st.logs, LogRow(r.alert, rule.rule_id))
                                 ELSE st.logs],
                       k + 1, write_ok)

RECURSIVE ApplyRules(_, _, _)
ApplyRules(rules, st, write_ok) ==
    IF rules = <<>> THEN st
    ELSE ApplyRules(Tail(rules),
                    IF RuleApplies(Head(rules))
                    THEN ApplyRule(Head(rules), st, 1, write_ok)
                    ELSE st,
                    write_ok)

\* SmartLayerProcessor.apply_refinements (Django)
apply_refinements(new_alerts, rules, logs, write_ok) ==
    IF new_alerts = <<>> THEN [alerts |-> <<>>, logs |-> logs]
    ELSE ApplyRules(rules, [alerts |-> new_alerts, logs |-> logs], write_ok)

\* deduplication key: (customer_id, str(alert_date.date()), scenario_id)
DedupKeyWithTime(a) == <<a.customer_id, a.alert_date, a.scenario_id>>
DedupKey(a) == <<a.customer_id, DateOf(a.alert_date), a.scenario_id>>

\* keep the first alert of every key
RECURSIVE Deduplicate(_, _)
Deduplicate(list, seen_keys) ==
    IF list = <<>> THEN <<>>
    ELSE IF DedupKey(Head(list)) \in seen_keys
         THEN Deduplicate(Tail(list), seen_keys)
         ELSE <<Head(list)>> \o
              Deduplicate(Tail(list), seen_keys \cup {DedupKey(Head(list))})

\* one AlertExclusionLog row per excluded alert, rule_id "Refinement"
ExclusionRows(list) ==
    LET ex == SelectSeq(list, LAMBDA a : a.excluded)
    IN  [k \in 1..Len(ex) |-> LogRow(ex[k], "Refinement")]

Retained(list) == Len(SelectSeq(list, LAMBDA a : ~a.excluded))

----------------------------------------------------------------------------
(* What the engine hands to the services *)

SeqsUpTo(S, n) == UNION {[1..k -> S] : k \in 0..n}

Midnight == [day |-> 0, hour |-> 0]

\* Django engine: at most one alert per customer group, in group order
DjangoAlertsOf(c) ==
    {[customer_id |-> c, alert_date |-> Midnight, excluded |-> FALSE, lookback |-> lb] :
        lb \in Lookbacks}

DjangoOutputs ==
    {<<>>}
    \cup {<<a>> : a \in DjangoAlertsOf("c1") \cup DjangoAlertsOf("c2")}
    \cup {<<a, b>> : a \in DjangoAlertsOf("c1"), b \in DjangoAlertsOf("c2")}

\* pandas engines: one alert per result row, refinement already applied
PandasAlertsOf(cs) ==
    {[customer_id |-> c, alert_date |-> ts, excluded |-> ex, lookback |-> <<>>] :
        c \in cs, ts \in Timestamps, ex \in BOOLEAN}

\* alert dicts of scenario sc, with generated alert ids base+1, base+2, ...
MakeAlerts(out, sc, base) ==
    [k \in 1..Len(out) |->
        [alert_id |-> base + k,
         customer_id |-> out[k].customer_id,
         alert_date |-> out[k].alert_date,
         scenario_id |-> sc,
         excluded |-> out[k].excluded,
         exclusion_reason |->
             IF out[k].excluded THEN ExclusionReason(LoanPayment) ELSE NoReason,
         lookback |-> out[k].lookback]]

----------------------------------------------------------------------------
(* SimulationService: one action per committed step of execute_run *)

\* the data set the run will read: no rows at all, or customers with transactions
Datasets == {"empty", "loaded"}

\* POST /run: the run record is created with status "pending"
CreateRun(v, sl, ds) ==
    /\ run_status = "none"
    /\ variant' = v
    /\ scenarios_run' = sl
    /\ run_status' = "pending"
    /\ dataset' = ds
    /\ UNCHANGED <<total_alerts, pc, sidx, batch_i, all_alerts, next_id,
                   db_alerts, db_logs, errors>>
    /\ UNCHANGED engineVars
    /\ UNCHANGED studyVars

\* execute_run: run.status = "running"; commit
StartRun ==
    /\ run_status = "pending"
    /\ run_status' = "running"
    /\ pc' = IF variant = "legacy" THEN "batches" ELSE "scenarios"
    /\ UNCHANGED <<variant, scenarios_run, total_alerts, sidx, batch_i,
                   all_alerts, next_id, db_alerts, db_logs>>
    /\ UNCHANGED <<dataset, errors>>
    /\ UNCHANGED engineVars
    /\ UNCHANGED studyVars

InScenarioLoop(v) ==
    /\ variant = v
    /\ run_status = "running"
    /\ pc = "scenarios"

\* execute_run raises before the scenario loop (the run has no user_id to
\* load data for, the data cannot be read): global handler, run "failed"
RunSetupFails ==
    /\ variant \in {"backend", "legacy"}
    /\ run_status = "running"
    /\ pc \in {"scenarios", "batches"}
    /\ sidx = 1 /\ batch_i = 0
    /\ run_status' = "failed"
    /\ pc' = "done"
    /\ UNCHANGED <<variant, scenarios_run, total_alerts, sidx, batch_i,
                   all_alerts, next_id, db_alerts, db_logs>>
    /\ UNCHANGED <<dataset, errors>>
    /\ UNCHANGED engineVars
    /\ UNCHANGED studyVars

\* an engine without transactions emits nothing
EngineOutput(out) == dataset = "empty" => out = <<>>

\* the exception handler of one scenario execution: log, continue with the
\* next scenario; the run keeps its status
AfterScenarioErrorAborts(i, status) == [sidx |-> i, run_status |-> "failed"]
AfterScenarioError(i, status) == [sidx |-> i + 1, run_status |-> status]

\* the execution of the next scenario raises (bad configuration, missing
\* field, exception inside the engine): its alerts are lost
ScenarioFails(v) ==
    /\ InScenarioLoop(v)
    /\ sidx <= Len(scenarios_run)
    /\ errors' = errors \cup {[batch |-> 0, scenario_id |-> scenarios_run[sidx]]}
    /\ sidx' = AfterScenarioError(sidx, run_status).sidx
    /\ run_status' = AfterScenarioError(sidx, run_status).run_status
    /\ UNCHANGED <<variant, scenarios_run, total_alerts, pc, batch_i,
                   all_alerts, next_id, db_alerts, db_logs, dataset>>
    /\ UNCHANGED engineVars
    /\ UNCHANGED studyVars

\* Django: UniversalScenarioEngine.execute catches the exception, returns []
DjangoScenarioFails == ScenarioFails("django")

\* backend: "except Exception" inside the loop over scenarios_to_run
BackendScenarioFails == ScenarioFails("backend")

\* Django: engine.execute of the next scenario; the refinement layer writes
\* its exclusion log rows while the alerts are still in memory
DjangoExecuteScenario(out, rules, write_ok) ==
    /\ InScenarioLoop("django")
    /\ sidx <= Len(scenarios_run)
    /\ EngineOutput(out)
    /\ next_id + Len(out) <= MaxAlerts
    /\ LET r == apply_refinements(MakeAlerts(out, scenarios_run[sidx], next_id),
                                  rules, db_logs, write_ok)
       IN  /\ all_alerts' = all_alerts \o r.alerts
           /\ db_logs' = r.logs
    /\ next_id' = next_id + Len(out)
    /\ sidx' = sidx + 1
    /\ UNCHANGED <<variant, scenarios_run, run_status, total_alerts, pc, batch_i,
                   db_alerts>>
    /\ UNCHANGED <<dataset, errors>>
    /\ UNCHANGED engineVars
    /\ UNCHANGED studyVars

\* Django: _save_results, one atomic transaction
DjangoSaveResults ==
    /\ InScenarioLoop("django")
    /\ sidx > Len(scenarios_run)
    /\ db_alerts' = db_alerts \o all_alerts
    /\ pc' = "finalize"
    /\ UNCHANGED <<variant, scenarios_run, run_status, total_alerts, sidx, batch_i,
                   all_alerts, next_id, db_logs>>
    /\ UNCHANGED <<dataset, errors>>
    /\ UNCHANGED engineVars
    /\ UNCHANGED studyVars

\* Django: _save_results raises; the transaction is rolled back, run "failed"
DjangoSaveFails ==
    /\ InScenarioLoop("django")
    /\ sidx > Len(scenarios_run)
    /\ run_status' = "failed"
    /\ pc' = "done"
    /\ UNCHANGED <<variant, scenarios_run, total_alerts, sidx, batch_i,
                   all_alerts, next_id, db_alerts, db_logs>>
    /\ UNCHANGED <<dataset, errors>>
    /\ UNCHANGED engineVars
    /\ UNCHANGED studyVars

\* Django: run.status = "completed", total_alerts = len(all_alerts)
DjangoComplete ==
    /\ variant = "django" /\ run_status = "running" /\ pc = "finalize"
    /\ run_status' = "completed"
    /\ total_alerts' = Len(all_alerts)
    /\ pc' = "done"
    /\ UNCHANGED <<variant, scenarios_run, sidx, batch_i, all_alerts, next_id,
                   db_alerts, db_logs>>
    /\ UNCHANGED <<dataset, errors>>
    /\ UNCHANGED engineVars
    /\ UNCHANGED studyVars

\* backend: engine.execute of the next scenario, alerts collected in memory
BackendExecuteScenario(out) ==
    /\ InScenarioLoop("backend")
    /\ sidx <= Len(scenarios_run)
    /\ EngineOutput(out)
    /\ next_id + Len(out) <= MaxAlerts
    /\ all_alerts' = all_alerts \o MakeAlerts(out, scenarios_run[sidx], next_id)
    /\ next_id' = next_id + Len(out)
    /\ sidx' = sidx + 1
    /\ UNCHANGED <<variant, scenarios_run, run_status, total_alerts, pc, batch_i,
                   db_alerts, db_logs>>
    /\ UNCHANGED <<dataset, errors>>
    /\ UNCHANGED engineVars
    /\ UNCHANGED studyVars

\* backend: deduplicate, add alerts and exclusion logs, one commit
BackendPersist ==
    /\ InScenarioLoop("backend")
    /\ sidx > Len(scenarios_run)
    /\ LET deduplicated_alerts == Deduplicate(all_alerts, {})
       IN  /\ db_alerts' = db_alerts \o deduplicated_alerts
           /\ db_logs' = db_logs \o ExclusionRows(deduplicated_alerts)
    /\ pc' = "finalize"
    /\ UNCHANGED <<variant, scenarios_run, run_status, total_alerts, sidx, batch_i,
                   all_alerts, next_id>>
    /\ UNCHANGED <<dataset, errors>>
    /\ UNCHANGED engineVars
    /\ UNCHANGED studyVars

\* backend: the commit raises; rollback, run "failed"
BackendPersistFails ==
    /\ InScenarioLoop("backend")
    /\ sidx > Len(scenarios_run)
    /\ run_status' = "failed"
    /\ pc' = "done"
    /\ UNCHANGED <<variant, scenarios_run, total_alerts, sidx, batch_i,
                   all_alerts, next_id, db_alerts, db_logs>>
    /\ UNCHANGED <<dataset, errors>>
    /\ UNCHANGED engineVars
    /\ UNCHANGED studyVars

\* backend: total_alerts = total_retained, status "completed"; commit
BackendComplete ==
    /\ variant = "backend" /\ run_status = "running" /\ pc = "finalize"
    /\ run_status' = "completed"
    /\ total_alerts' = Retained(Deduplicate(all_alerts, {}))
    /\ pc' = "done"
    /\ UNCHANGED <<variant, scenarios_run, sidx, batch_i, all_alerts, next_id,
                   db_alerts, db_logs>>
    /\ UNCHANGED <<dataset, errors>>
    /\ UNCHANGED engineVars
    /\ UNCHANGED studyVars

\* legacy: the customers of the run, sliced into batches of BATCH_SIZE
all_cust_ids == IF dataset = "empty" THEN <<>> ELSE CustomerOrder

\* customers per batch, scaled with the data set so that a run has two batches
BATCH_SIZE == Len(CustomerOrder) \div 2

BatchCustomers(i) ==
    {all_cust_ids[k] : k \in {n \in 1..Len(all_cust_ids) : n > i /\ n <= i + BATCH_SIZE}}

ScenarioPos(sl, id) == CHOOSE k \in 1..Len(sl) : sl[k] = id

\* alerts of one batch: every scenario of the run in turn, over the batch's customers
BatchOutputs(i, sl, n) ==
    {out \in SeqsUpTo([alert : PandasAlertsOf(BatchCustomers(i)),
                       scenario_id : {sl[k] : k \in 1..Len(sl)}], n) :
        \A k \in 1..(Len(out) - 1) :
            ScenarioPos(sl, out[k].scenario_id) <= ScenarioPos(sl, out[k + 1].scenario_id)}

BatchAlerts(out, base) ==
    [k \in 1..Len(out) |->
        MakeAlerts(<<out[k].alert>>, out[k].scenario_id, base + k - 1)[1]]

InBatchLoop ==
    /\ variant = "legacy"
    /\ run_status = "running"
    /\ pc = "batches"

\* legacy: _run_batch on the next batch (engine, deduplication, bulk inserts,
\* one commit), then the progress commit.  The executions of the scenarios in
\* bad raise inside the loop over scenarios_to_run and contribute nothing.
LegacyRunBatch(out, bad) ==
    /\ InBatchLoop
    /\ batch_i < Len(all_cust_ids)
    /\ \A k \in 1..Len(out) : out[k].scenario_id \notin bad
    /\ errors' = errors \cup {[batch |-> batch_i, scenario_id |-> sc] : sc \in bad}
    /\ run_status' = IF bad = {} THEN run_status
                     ELSE AfterScenarioError(sidx, run_status).run_status
    /\ LET deduplicated_alerts == Deduplicate(BatchAlerts(out, next_id), {})
       IN  /\ db_alerts' = db_alerts \o deduplicated_alerts
           /\ db_logs' = db_logs \o ExclusionRows(deduplicated_alerts)
    /\ next_id' = next_id + Len(out)
    /\ batch_i' = batch_i + BATCH_SIZE
    /\ UNCHANGED <<variant, scenarios_run, total_alerts, pc, sidx,
                   all_alerts, dataset>>
    /\ UNCHANGED engineVars
    /\ UNCHANGED studyVars

\* legacy: a batch raises; rollback of the batch, run "failed"
LegacyBatchFails ==
    /\ InBatchLoop
    /\ batch_i < Len(all_cust_ids)
    /\ run_status' = "failed"
    /\ pc' = "done"
    /\ UNCHANGED <<variant, scenarios_run, total_alerts, sidx, batch_i,
                   all_alerts, next_id, db_alerts, db_logs>>
    /\ UNCHANGED <<dataset, errors>>
    /\ UNCHANGED engineVars
    /\ UNCHANGED studyVars

\* legacy: after the last batch, total_alerts = stored alerts not excluded
LegacyComplete ==
    /\ InBatchLoop
    /\ batch_i >= Len(all_cust_ids)
    /\ run_status' = "completed"
    /\ total_alerts' = Retained(db_alerts)
    /\ pc' = "done"
    /\ UNCHANGED <<variant, scenarios_run, sidx, batch_i, all_alerts, next_id,
                   db_alerts, db_logs>>
    /\ UNCHANGED <<dataset, errors>>
    /\ UNCHANGED engineVars
    /\ UNCHANGED studyVars

\* the process dies while the run executes: memory is lost, the tables stay
Crash ==
    /\ run_status = "running"
    /\ pc \in {"scenarios", "batches", "finalize"}
    /\ pc' = "crashed"
    /\ all_alerts' = <<>>
    /\ UNCHANGED <<variant, scenarios_run, run_status, total_alerts, sidx, batch_i,
                   next_id, db_alerts, db_logs>>
    /\ UNCHANGED <<dataset, errors>>
    /\ UNCHANGED engineVars
    /\ UNCHANGED studyVars

Next ==
    \/ \E v \in Variants, sl \in ScenarioLists, ds \in Datasets : CreateRun(v, sl, ds)
    \/ StartRun
    \/ RunSetupFails
    \/ DjangoScenarioFails
    \/ BackendScenarioFails
    \/ \E out \in DjangoOutputs, rules \in RuleLists, write_ok \in BOOLEAN :
          DjangoExecuteScenario(out, rules, write_ok)
    \/ DjangoSaveResults
    \/ DjangoSaveFails
    \/ DjangoComplete
    \/ \E out \in SeqsUpTo(PandasAlertsOf(Customers), MaxAlerts - next_id) :
          BackendExecuteScenario(out)
    \/ BackendPersist
    \/ BackendPersistFails
    \/ BackendComplete
    \/ \E out \in BatchOutputs(batch_i, scenarios_run, MaxAlerts - next_id),
          bad \in SUBSET {scenarios_run[k] : k \in 1..Len(scenarios_run)} :
          LegacyRunBatch(out, bad)
    \/ LegacyBatchFails
    \/ LegacyComplete
    \/ Crash

Spec == Init /\ [][Next]_vars

----------------------------------------------------------------------------
(* Properties of stored alerts and exclusion logs *)

LogsOf(id) == {l \in 1..Len(db_logs) : db_logs[l].alert_id = id}

ProducedBy(a, e) ==
    /\ a.scenario_id = e.scenario_id
    /\ (variant = "legacy" => a.customer_id \in BatchCustomers(e.batch))

\* no alert, in memory or stored, comes from a scenario execution that raised
FailedScenarioContributesNothing ==
    \A e \in errors :
        /\ \A k \in 1..Len(all_alerts) : ~ProducedBy(all_alerts[k], e)
        /\ \A k \in 1..Len(db_alerts) : ~ProducedBy(db_alerts[k], e)

\* a completed run went through all its scenarios
AllScenariosExecuted ==
    (run_status = "completed" /\ variant # "legacy") => sidx = Len(scenarios_run) + 1

\* the step in which a scenario execution raises leaves the run running and
\* moves on to the next scenario (legacy: to the next batch, the scenario loop
\* being inside the batch)
RunContinuesAfterError ==
    errors' # errors =>
        /\ run_status' = "running"
        /\ pc' = pc
        /\ IF variant = "legacy" THEN batch_i' = batch_i + BATCH_SIZE
                                 ELSE sidx' = sidx + 1

\* C16: if executing one scenario of a run fails, that scenario contributes no
\* alerts, every remaining scenario of the run is still executed, and the run
\* is not aborted.
C16_ScenarioFailureIsolated ==
    /\ [](FailedScenarioContributesNothing /\ AllScenariosExecuted)
    /\ [][RunContinuesAfterError]_vars

\* C16 witness: a completed run whose first scenario raised and whose second
\* scenario, executed afterwards, contributed a stored alert.
C16_Witness ==
    /\ variant = "backend"
    /\ run_status = "completed"
    /\ scenarios_run = <<"s1", "s2">>
    /\ \E e \in errors : e.scenario_id = "s1"
    /\ \E k \in 1..Len(db_alerts) : db_alerts[k].scenario_id = "s2"

\* C17: a run ends in the failed state only when there is no input data to
\* process at all; no other error condition makes the run fail.
C17_FailsOnlyWithoutData ==
    run_status = "failed" => dataset = "empty"

----------------------------------------------------------------------------
(* Refinement layer on the transactions of one alert: EventDetector and     *)
(* SmartLayerProcessor.apply_refinements (Django and legacy)                *)

MaxLedger == 2        \* transactions of the customer in the ledger

\* Strings are sequences of words.  str.lower() on the words of the model
LowerWord(w) ==
    CASE w = "Tuition" -> "tuition"
      [] w = "EMI" -> "emi"
      [] w = "FD" -> "fd"
      [] w = "Oxford" -> "oxford"
      [] w = "OXFORD" -> "oxford"
      [] w = "University" -> "university"
      [] w = "Old" -> "old"
      [] w = "College" -> "college"
      [] w = "Acme" -> "acme"
      [] w = "Bank" -> "bank"
      [] OTHER -> w

LowerStr(s) == [k \in 1..Len(s) |-> LowerWord(s[k])]

\* kw in s: kw occurs in s as a contiguous part
ContainsStr(s, kw) ==
    \E i \in 0..(Len(s) - Len(kw)) : \A k \in 1..Len(kw) : s[i + k] = kw[k]

EDUCATION_KEYWORDS ==
    {<<"university">>, <<"tuition">>, <<"education">>, <<"school">>,
     <<"college">>, <<"student", "fee">>, <<"semester">>}
LOAN_KEYWORDS ==
    {<<"loan">>, <<"emi">>, <<"mortgage">>, <<"repayment">>, <<"installment">>,
     <<"financing">>}
FIXED_DEPOSIT_KEYWORDS ==
    {<<"fixed", "deposit">>, <<"fd">>, <<"term", "deposit">>, <<"investment">>,
     <<"fd", "maturity">>}

\* any(kw in narrative_lower for kw in keywords)
AnyKeyword(narrative_lower, keywords) ==
    \E kw \in keywords : ContainsStr(narrative_lower, kw)

\* table verified_entities (reference data)
VerifiedEntities ==
    {[entity_name |-> <<"Oxford", "University">>, entity_type |-> "University",
      is_active |-> TRUE],
     [entity_name |-> <<"Old", "College">>, entity_type |-> "University",
      is_active |-> FALSE],
     [entity_name |-> <<"Acme", "Bank">>, entity_type |-> "FinancialInstitution",
      is_active |-> TRUE]}

\* entity_name ILIKE %name%, entity_type = type, is_active
is_verified_entity(entity_name, entity_type) ==
    /\ entity_name # <<>>
    /\ \E e \in VerifiedEntities :
          /\ ContainsStr(LowerStr(e.entity_name), LowerStr(entity_name))
          /\ e.entity_type = entity_type
          /\ e.is_active

EducationCap == 50000    \* if amount > 50000: amount_reasonable = False

NoContext == [type |-> "none", is_verified |-> FALSE, amount_reasonable |-> TRUE]

\* EventDetector.detect_event_context
detect_event_context(narrative, amount, beneficiary) ==
    LET narrative_lower == LowerStr(narrative)
        event_type ==
            IF narrative = <<>> THEN "none"
            ELSE IF AnyKeyword(narrative_lower, EDUCATION_KEYWORDS) THEN "education"
            ELSE IF AnyKeyword(narrative_lower, LOAN_KEYWORDS) THEN "loan"
            ELSE IF AnyKeyword(narrative_lower, FIXED_DEPOSIT_KEYWORDS)
                 THEN "fixed_deposit"
            ELSE "none"
    IN  IF event_type = "none" THEN NoContext
        ELSE [type |-> event_type,
              is_verified |->
                  CASE event_type = "education" ->
                           is_verified_entity(beneficiary, "University")
                    [] event_type = "loan" ->
                           is_verified_entity(beneficiary, "FinancialInstitution")
                    [] OTHER -> FALSE,
              amount_reasonable |-> ~(event_type = "education" /\ amount > EducationCap)]

LookbackDays == 30       \* the lookback window of the refinement layer, in days

\* created_at within [alert_date - 30 days, alert_date]
InTriggerWindow(t) == t.days_before >= 0 /\ t.days_before <= LookbackDays

\* the in-scope transactions of the alert: rows of the ledger in the window
TriggerTxns(rows) == SelectSeq(rows, InTriggerWindow)

\* contexts detected on the in-scope transactions, in iteration order
ContextsOf(rows) ==
    LET w == TriggerTxns(rows)
    IN  [k \in 1..Len(w) |->
            detect_event_context(w[k].narrative, w[k].amount, w[k].beneficiary)]

RuleFixedDeposit ==
    [rule_id |-> "r_fd", type |-> "event_based", excluded_events |-> {"fixed_deposit"}]

\* the alert of the customer as the engine emitted it
PendingAlert(rows) ==
    MakeAlerts(<<[customer_id |-> "c1", alert_date |-> Midnight, excluded |-> FALSE,
                  lookback |-> ContextsOf(rows)]>>, "s1", 0)[1]

\* legacy apply_refinements: keywords of the vectorized pre-selection
event_keywords(event) ==
    CASE event = "education" ->
             {<<"tuition">>, <<"university">>, <<"college">>, <<"school">>}
      [] event = "crypto" ->
             {<<"crypto">>, <<"bitcoin">>, <<"binance">>, <<"coinbase">>}
      [] event = "loan" -> {<<"loan">>, <<"mortgage">>, <<"credit">>}
      [] OTHER -> {}

all_keywords(excluded_events) == UNION {event_keywords(e) : e \in excluded_events}

\* the customer has a transaction, anywhere in the data set, whose narrative
\* matches the keyword pattern (case-insensitive)
customers_with_matches(rows, excluded_events) ==
    \E k \in 1..Len(rows) :
        AnyKeyword(LowerStr(rows[k].narrative), all_keywords(excluded_events))

\* legacy: one rule on one alert
LegacyRefineAlert(rule, alert, rows) ==
    IF /\ rule.type = "event_based"
       /\ all_keywords(rule.excluded_events) # {}
       /\ customers_with_matches(rows, rule.excluded_events)
    THEN RefineAlert(rule, alert).alert
    ELSE alert

\* transactions of the study
Narratives ==
    [tuition    |-> <<"Tuition", "fee">>,
     semester   |-> <<"semester", "fee">>,
     schoolloan |-> <<"school", "loan">>,
     emi        |-> <<"EMI", "payment">>,
     loan       |-> <<"home", "loan">>,
     fd         |-> <<"FD", "maturity">>,
     other      |-> <<"groceries">>]

Transaction(n, a, b, d) ==
    [narrative |-> n, amount |-> a, beneficiary |-> b, days_before |-> d]

LedgerChoices ==
    {Transaction(Narratives[n], a, b, 0) :
        n \in {"tuition", "semester", "schoolloan"},
        a \in {EducationCap, 80000},
        b \in {<<"Oxford", "University">>, <<"OXFORD">>, <<"Old", "College">>, <<>>}}
    \cup
    {Transaction(Narratives[n], ab[1], ab[2], 0) :
        n \in {"emi", "loan", "fd"},
        ab \in {<<80000, <<>> >>, <<30000, <<"Acme", "Bank">> >>}}
    \cup
    {Transaction(Narratives["other"], 30000, <<>>, 0),
     Transaction(Narratives["tuition"], 30000, <<"Oxford", "University">>,
                 LookbackDays + 1),
     Transaction(Narratives["loan"], 30000, <<>>, LookbackDays + 1)}

StudyRules == {RuleEducation, RuleLoan, RuleFixedDeposit, RuleOther}

\* a transaction of the customer is stored
AddTransaction(t) ==
    /\ refined.variant = "none"
    /\ Len(ledger) < MaxLedger
    /\ ledger' = Append(ledger, t)
    /\ UNCHANGED refined
    /\ UNCHANGED <<engineVars, persistVars, filterVars, compareVars, riskVars, chunkVars, opsVars>>

\* Django: apply_refinements([alert], user_id, [rule])
DjangoRefine(rule) ==
    /\ refined.variant = "none"
    /\ refined' =
          [variant |-> "django", rule |-> rule,
           alert |-> apply_refinements(<<PendingAlert(ledger)>>, <<rule>>,
                                       <<>>, TRUE).alerts[1]]
    /\ UNCHANGED ledger
    /\ UNCHANGED <<engineVars, persistVars, filterVars, compareVars, riskVars, chunkVars, opsVars>>

\* legacy: apply_refinements(alerts, transactions, [rule])
LegacyRefine(rule) ==
    /\ refined.variant = "none"
    /\ refined' =
          [variant |-> "legacy", rule |-> rule,
           alert |-> LegacyRefineAlert(rule, PendingAlert(ledger), ledger)]
    /\ UNCHANGED ledger
    /\ UNCHANGED <<engineVars, persistVars, filterVars, compareVars, riskVars, chunkVars, opsVars>>

NextRefine ==
    \/ \E t \in LedgerChoices : AddTransaction(t)
    \/ \E rule \in StudyRules : DjangoRefine(rule)
    \/ \E rule \in StudyRules : LegacyRefine(rule)

SpecRefine == Init /\ [][NextRefine]_vars

----------------------------------------------------------------------------
(* Properties of the refinement layer *)

Refined == refined.variant # "none"

\* the beneficiary is an active University entry of the whitelist
OnUniversityWhitelist(beneficiary) ==
    \E e \in VerifiedEntities :
        /\ e.entity_type = "University"
        /\ e.is_active
        /\ LowerStr(e.entity_name) = LowerStr(beneficiary)

EducationClassified(t) ==
    detect_event_context(t.narrative, t.amount, t.beneficiary).type = "education"

\* C12: an education-classified transaction causes an exclusion only if its
\* beneficiary is on the active University whitelist and its amount is at most
\* 50,000: an alert excluded for an education transaction has, in scope, an
\* education transaction with a whitelisted beneficiary and amount <= 50,000.
C12_EducationNeedsVerification ==
    (/\ Refined
     /\ refined.alert.excluded
     /\ refined.alert.exclusion_reason.type = "education") =>
        \E k \in 1..Len(TriggerTxns(ledger)) :
            LET t == TriggerTxns(ledger)[k]
            IN  /\ EducationClassified(t)
                /\ OnUniversityWhitelist(t.beneficiary)
                /\ t.amount <= EducationCap

\* an in-scope education-narrative transaction of at most 50,000 to a
\* whitelisted university
VerifiedEducationInScope ==
    \E k \in 1..Len(TriggerTxns(ledger)) :
        LET t == TriggerTxns(ledger)[k]
        IN  /\ EducationClassified(t)
            /\ OnUniversityWhitelist(t.beneficiary)
            /\ t.amount <= EducationCap

\* C13: under a rule with excluded_events = [education], an alert that has in
\* its scan scope an education-narrative transaction of at most 50,000 to a
\* whitelisted university ends excluded, with an exclusion reason that
\* references "Verified education transaction".
C13_VerifiedEducationExcluded ==
    (Refined /\ refined.rule = RuleEducation /\ VerifiedEducationInScope) =>
        /\ refined.alert.excluded
        /\ refined.alert.exclusion_reason = [prefix |-> "Verified", type |-> "education"]

\* keywords by which a narrative matches an event type
KeywordsOf(event) ==
    CASE event = "loan" -> LOAN_KEYWORDS
      [] event = "fixed_deposit" -> FIXED_DEPOSIT_KEYWORDS

\* an in-scope transaction whose narrative matches a keyword of the event type
NarrativeInScope(event) ==
    \E k \in 1..Len(TriggerTxns(ledger)) :
        AnyKeyword(LowerStr(TriggerTxns(ledger)[k].narrative), KeywordsOf(event))

\* C14: under a rule whose excluded_events contains loan (respectively
\* fixed_deposit), an alert with an in-scope transaction whose narrative
\* matches a loan (respectively fixed_deposit) keyword is excluded on the match
\* alone, whatever the amount and whether or not the beneficiary is verified.
C14_LoanAndDepositExcludeOnMatch ==
    Refined =>
        \A event \in {"loan", "fixed_deposit"} :
            (/\ refined.rule.type = "event_based"
             /\ event \in refined.rule.excluded_events
             /\ NarrativeInScope(event)) => refined.alert.excluded

----------------------------------------------------------------------------
(* Filters: UniversalScenarioEngine.apply_filters (Django) and              *)
(* FilterProcessor.apply_filters (backend)                                  *)

MaxRows == 2          \* transaction rows of the filter study

\* a transaction: raw_data keys amount and channel (channel may be missing)
\* and the customer the row belongs to
Row(a, ch, c) == [amount |-> Num(a), channel |-> ch, customer |-> c]

RowChoices ==
    {Row(a, ch, c) : a \in {0, 2}, ch \in {Text("wire"), Absent}, c \in Customers}

Filter(f, op, val) == [field |-> f, operator |-> op, value |-> val]

\* "ghost" is a key of no transaction and of no customer
FilterChoices ==
    { Filter("amount", ">", Num(1)),
      Filter("channel", "==", Text("wire")),
      Filter("income", ">", Num(1)),
      Filter("ghost", "==", Text("wire")),
      Filter("ghost", ">", Num(0)),
      Filter("customer.ghost", "==", Num(0)) }

FilterLists ==
    {<<>>} \cup {<<f>> : f \in FilterChoices}
           \cup {<<f, g>> : f \in FilterChoices, g \in FilterChoices}

\* raw_data[field] of a transaction
RawValue(row, field) ==
    CASE field = "amount"  -> row.amount
      [] field = "channel" -> row.channel
      [] OTHER             -> Absent

\* customer raw_data[field]
CustValue(c, field) ==
    CASE field = "income" -> CustomerRawData[c].income
      [] field = "limit"  -> CustomerRawData[c].limit
      [] OTHER            -> Absent

\* set(first_tx.raw_data.keys())
tx_fields(data) ==
    IF data = <<>> THEN {}
    ELSE {"amount"} \cup (IF data[1].channel.kind = "absent" THEN {} ELSE {"channel"})

\* set(last_cust.raw_data.keys()) of the first customer of the upload
cust_fields(data) == IF data = <<>> THEN {} ELSE {"income", "limit"}

\* a stored value satisfies "operator value"; a missing key satisfies nothing
Matches(v, op, val) ==
    /\ v.kind = val.kind
    /\ CASE op = "==" -> v.v = val.v /\ v.w = val.w
         [] op = ">"  -> v.kind = "num" /\ v.v > val.v
         [] OTHER     -> FALSE

\* the value the ORM lookup of one filter reads for one row
OrmLookup(data, row, field) ==
    IF field \in {"customer.ghost", "customer.income", "customer.limit"}
    THEN CustValue(row.customer,
                   CASE field = "customer.income" -> "income"
                     [] field = "customer.limit" -> "limit"
                     [] OTHER -> "ghost")
    ELSE IF field \in cust_fields(data) /\ field \notin tx_fields(data)
         THEN CustValue(row.customer, field)
         ELSE RawValue(row, field)

\* qs.filter(q_obj): the indices of the rows that satisfy every predicate
DjangoApplyFilters(data, filters) ==
    {k \in 1..Len(data) :
        \A i \in 1..Len(filters) :
            Matches(OrmLookup(data, data[k], filters[i].field),
                    filters[i].operator, filters[i].value)}

\* df.columns after the customer merge
Columns(data) == {"amount", "channel", "income", "limit"}

\* the value of one column in one row of the merged frame
ColumnValue(row, field) ==
    IF field \in {"income", "limit"} THEN CustValue(row.customer, field)
    ELSE RawValue(row, field)

\* field not in df.columns: "return df"
UnknownColumn(data, kept) == kept

\* FilterProcessor._apply_single_filter
apply_single_filter(data, kept, f) ==
    IF f.field \notin Columns(data) THEN UnknownColumn(data, kept)
    ELSE {k \in kept : Matches(ColumnValue(data[k], f.field), f.operator, f.value)}

RECURSIVE BackendFilterLoop(_, _, _)
BackendFilterLoop(data, kept, filters) ==
    IF filters = <<>> THEN kept
    ELSE BackendFilterLoop(data, apply_single_filter(data, kept, Head(filters)),
                           Tail(filters))

\* FilterProcessor.apply_filters on the list format
BackendApplyFilters(data, filters) ==
    BackendFilterLoop(data, 1..Len(data), filters)

AddRow(r) ==
    /\ filtered.variant = "none"
    /\ Len(frame) < MaxRows
    /\ frame' = Append(frame, r)
    /\ UNCHANGED filtered
    /\ UNCHANGED <<engineVars, persistVars, refineVars, compareVars, riskVars, chunkVars, opsVars>>

DjangoFilter(filters) ==
    /\ filtered.variant = "none"
    /\ filtered' = [variant |-> "django", filters |-> filters,
                    out |-> DjangoApplyFilters(frame, filters)]
    /\ UNCHANGED frame
    /\ UNCHANGED <<engineVars, persistVars, refineVars, compareVars, riskVars, chunkVars, opsVars>>

BackendFilter(filters) ==
    /\ filtered.variant = "none"
    /\ filtered' = [variant |-> "backend", filters |-> filters,
                    out |-> BackendApplyFilters(frame, filters)]
    /\ UNCHANGED frame
    /\ UNCHANGED <<engineVars, persistVars, refineVars, compareVars, riskVars, chunkVars, opsVars>>

NextFilter ==
    \/ \E r \in RowChoices : AddRow(r)
    \/ \E filters \in FilterLists : DjangoFilter(filters)
    \/ \E filters \in FilterLists : BackendFilter(filters)

SpecFilter == Init /\ [][NextFilter]_vars

\* the field of a predicate is a key of no transaction and of no customer
UnknownField(field) == field \in {"ghost", "customer.ghost"}

\* the filter list without its k-th predicate
WithoutFilter(filters, k) ==
    [i \in 1..(Len(filters) - 1) |-> IF i < k THEN filters[i] ELSE filters[i + 1]]

\* the rows one variant keeps
FilterOutput(v, data, filters) ==
    IF v = "django" THEN DjangoApplyFilters(data, filters)
    ELSE BackendApplyFilters(data, filters)

\* C19: a predicate on a field found neither in the transactions nor in the
\* customers is skipped: the rows kept are the rows kept by the filter list
\* without that predicate.
C19_UnknownFieldSkipped ==
    filtered.variant # "none" =>
        \A k \in 1..Len(filtered.filters) :
            UnknownField(filtered.filters[k].field) =>
                filtered.out =
                    FilterOutput(filtered.variant, frame,
                                 WithoutFilter(filtered.filters, k))

----------------------------------------------------------------------------
(* Run comparison: ComparisonEngine (Django comparison_engine.py, backend   *)
(* services/comparison_service.py)                                          *)

MaxCompare == 2       \* alerts of each of the two runs under comparison

DjangoDiffLimit == 100    \* _calculate_granular_diff(..., limit=100)
BackendDiffLimit == 50    \* granular_diff[:50]

RiskScores == {25, 80}

\* a stored alert of a run: the columns the comparison reads, and its
\* exclusion columns
CompareAlert(c, r, ex) ==
    [customer_id |-> c, risk_score |-> r, excluded |-> ex,
     exclusion_reason |-> IF ex THEN ExclusionReason(LoanPayment) ELSE NoReason]

\* Alert rows of a run are loaded whatever their excluded flag
CompareAlertChoices ==
    {CompareAlert(c, r, FALSE) : c \in Customers, r \in RiskScores}
    \cup {CompareAlert("c1", 80, TRUE)}

\* set(a.customer_id for a in alerts)
CustomersOf(list) == {list[k].customer_id : k \in 1..Len(list)}

\* {a.customer_id: a for a in alerts}[c]: the last alert of the customer
AlertMap(list, c) ==
    list[CHOOSE k \in 1..Len(list) :
            /\ list[k].customer_id = c
            /\ \A j \in (k + 1)..Len(list) : list[j].customer_id # c]

\* an iteration order of a set of customers
Orderings(S) ==
    {o \in [1..Cardinality(S) -> S] :
        \A i, j \in 1..Cardinality(S) : i # j => o[i] # o[j]}

\* list.sort(key=risk, reverse=True): stable, highest first
RECURSIVE InsertByRisk(_, _, _)
InsertByRisk(sorted, e, key) ==
    IF sorted = <<>> THEN <<e>>
    ELSE IF Head(sorted)[key] >= e[key]
         THEN <<Head(sorted)>> \o InsertByRisk(Tail(sorted), e, key)
         ELSE <<e>> \o sorted

RECURSIVE SortByRisk(_, _, _)
SortByRisk(list, acc, key) ==
    IF list = <<>> THEN acc
    ELSE SortByRisk(Tail(list), InsertByRisk(acc, Head(list), key), key)

Truncate(list, limit) ==
    SubSeq(list, 1, IF Len(list) < limit THEN Len(list) ELSE limit)

\* round(net_change / baseline_count * 100, 2), in hundredths of a percent
ReductionRate(net_change, baseline_count) ==
    IF baseline_count > 0 THEN RoundNearest(net_change * 10000, baseline_count)
    ELSE 0

\* the status of a customer, testing the baseline only
StatusIgnoresRefined(in_baseline, in_refined) ==
    IF in_baseline THEN "removed" ELSE "added"

\* the status of a customer of the diff
StatusOf(in_baseline, in_refined) ==
    IF in_baseline /\ ~in_refined THEN "removed"
    ELSE IF ~in_baseline /\ in_refined THEN "added"
    ELSE "maintained"

\* Django _calculate_summary
DjangoSummary(baseline, candidate) ==
    [baseline_alerts |-> Len(baseline),
     refined_alerts |-> Len(candidate),
     net_change |-> Len(baseline) - Len(candidate),
     reduction_rate |-> ReductionRate(Len(baseline) - Len(candidate), Len(baseline)),
     maintained_customers |-> Cardinality(CustomersOf(baseline) \cap CustomersOf(candidate)),
     removed_customers |-> Cardinality(CustomersOf(baseline) \ CustomersOf(candidate)),
     added_customers |-> Cardinality(CustomersOf(candidate) \ CustomersOf(baseline))]

\* one entry of the Django diff
DjangoEntry(baseline, candidate, cid) ==
    LET in_baseline == cid \in CustomersOf(baseline)
        in_refined == cid \in CustomersOf(candidate)
        alert == IF in_refined THEN AlertMap(candidate, cid)
                 ELSE AlertMap(baseline, cid)
    IN  [customer_id |-> cid,
         status |-> StatusOf(in_baseline, in_refined),
         risk_score |-> alert.risk_score,
         risk_change |-> IF in_baseline /\ in_refined
                         THEN AlertMap(candidate, cid).risk_score
                              - AlertMap(baseline, cid).risk_score
                         ELSE 0]

\* Django _calculate_granular_diff, the customers iterated in the given order
DjangoGranularDiff(baseline, candidate, order) ==
    Truncate(SortByRisk([k \in 1..Len(order) |->
                            DjangoEntry(baseline, candidate, order[k])],
                        <<>>, "risk_score"),
             DjangoDiffLimit)

\* backend _calculate_summary
BackendSummary(baseline, candidate) ==
    [baseline_alerts |-> Len(baseline),
     refined_alerts |-> Len(candidate),
     net_change |-> Len(baseline) - Len(candidate),
     percent_reduction |-> ReductionRate(Len(baseline) - Len(candidate), Len(baseline))]

\* the highest risk score of a customer's baseline alerts
MaxRiskOf(baseline, cid) ==
    CHOOSE r \in {baseline[k].risk_score : k \in 1..Len(baseline)} :
        /\ \E k \in 1..Len(baseline) :
              baseline[k].customer_id = cid /\ baseline[k].risk_score = r
        /\ \A k \in 1..Len(baseline) :
              baseline[k].customer_id = cid => baseline[k].risk_score <= r

\* one entry of the backend diff
BackendEntry(baseline, cid) ==
    [customer_id |-> cid,
     status |-> "removed",
     alert_count |-> Cardinality({k \in 1..Len(baseline) : baseline[k].customer_id = cid}),
     max_risk_score |-> MaxRiskOf(baseline, cid)]

\* backend _calculate_granular_diff: the removed customers only
BackendGranularDiff(baseline, order) ==
    Truncate(SortByRisk([k \in 1..Len(order) |-> BackendEntry(baseline, order[k])],
                        <<>>, "max_risk_score"),
             BackendDiffLimit)

TopRisks == 10        \* sorted(..., reverse=True)[:10]

\* the entries' scores, in the order of the diff
ScoresOf(granular_diff, key) ==
    [k \in 1..Len(granular_diff) |-> granular_diff[k][key]]

RECURSIVE InsertDesc(_, _)
InsertDesc(sorted, x) ==
    IF sorted = <<>> THEN <<x>>
    ELSE IF Head(sorted) >= x THEN <<Head(sorted)>> \o InsertDesc(Tail(sorted), x)
    ELSE <<x>> \o sorted

\* sorted(scores, reverse=True)
RECURSIVE SortedDesc(_, _)
SortedDesc(scores, acc) ==
    IF scores = <<>> THEN acc
    ELSE SortedDesc(Tail(scores), InsertDesc(acc, Head(scores)))

\* round(sum(top_risks) / len(top_risks), 2) over the ten highest scores, in
\* hundredths; 0.0 for an empty diff
MeanTopRisks(scores) ==
    LET top_risks == Truncate(SortedDesc(scores, <<>>), TopRisks)
    IN  IF top_risks = <<>> THEN 0
        ELSE RoundNearest(SumSeq(top_risks) * 100, Len(top_risks))

\* Django _analyze_risk: every entry of the diff is scored
DjangoAnalyzeRisk(granular_diff) ==
    LET risk_score == MeanTopRisks(ScoresOf(granular_diff, "risk_score"))
    IN  [risk_score |-> risk_score,
         risk_level |-> IF granular_diff = <<>> THEN "SAFE" ELSE "CRITICAL",
         high_risk_suppressions |-> Len(granular_diff),
         total_suppressions |-> Len(granular_diff)]

\* backend _analyze_risk
BackendAnalyzeRisk(granular_diff) ==
    LET risk_score == MeanTopRisks(ScoresOf(granular_diff, "max_risk_score"))
    IN  [risk_score |-> risk_score,
         risk_level |-> IF granular_diff = <<>> THEN "SAFE"
                        ELSE IF risk_score >= 7500 THEN "CRITICAL"
                        ELSE IF risk_score >= 5000 THEN "DANGEROUS"
                        ELSE IF risk_score >= 2500 THEN "CAUTION"
                        ELSE "SAFE",
         high_risk_suppressions |->
             Cardinality({k \in 1..Len(granular_diff) :
                             granular_diff[k].max_risk_score > 70}),
         total_suppressions |-> Len(granular_diff)]

AddBaselineAlert(a) ==
    /\ report.variant = "none"
    /\ Len(baseline_alerts) < MaxCompare
    /\ baseline_alerts' = Append(baseline_alerts, a)
    /\ UNCHANGED <<refined_alerts, report>>
    /\ UNCHANGED <<engineVars, persistVars, refineVars, filterVars, riskVars, chunkVars, opsVars>>

AddRefinedAlert(a) ==
    /\ report.variant = "none"
    /\ Len(refined_alerts) < MaxCompare
    /\ refined_alerts' = Append(refined_alerts, a)
    /\ UNCHANGED <<baseline_alerts, report>>
    /\ UNCHANGED <<engineVars, persistVars, refineVars, filterVars, riskVars, chunkVars, opsVars>>

\* ComparisonEngine.compare_runs (Django)
DjangoCompare(order) ==
    /\ report.variant = "none"
    /\ report' = [variant |-> "django",
                  summary |-> DjangoSummary(baseline_alerts, refined_alerts),
                  granular_diff |->
                      DjangoGranularDiff(baseline_alerts, refined_alerts, order),
                  risk_analysis |->
                      DjangoAnalyzeRisk(
                          DjangoGranularDiff(baseline_alerts, refined_alerts, order))]
    /\ UNCHANGED <<baseline_alerts, refined_alerts>>
    /\ UNCHANGED <<engineVars, persistVars, refineVars, filterVars, riskVars, chunkVars, opsVars>>

\* ComparisonEngine.compare_runs (backend); the report is also saved as a
\* SimulationComparison row unless that commit fails
BackendCompare(order, commit_ok) ==
    /\ report.variant = "none"
    /\ report' = [variant |-> "backend",
                  persisted |-> commit_ok,
                  summary |-> BackendSummary(baseline_alerts, refined_alerts),
                  granular_diff |-> BackendGranularDiff(baseline_alerts, order),
                  risk_analysis |->
                      BackendAnalyzeRisk(BackendGranularDiff(baseline_alerts, order))]
    /\ UNCHANGED <<baseline_alerts, refined_alerts>>
    /\ UNCHANGED <<engineVars, persistVars, refineVars, filterVars, riskVars, chunkVars, opsVars>>

NextCompare ==
    \/ \E a \in CompareAlertChoices : AddBaselineAlert(a)
    \/ \E a \in CompareAlertChoices : AddRefinedAlert(a)
    \/ \E order \in Orderings(CustomersOf(baseline_alerts)
                              \cup CustomersOf(refined_alerts)) :
          DjangoCompare(order)
    \/ \E order \in Orderings(CustomersOf(baseline_alerts)
                              \ CustomersOf(refined_alerts)) :
          \E commit_ok \in BOOLEAN : BackendCompare(order, commit_ok)

SpecCompare == Init /\ [][NextCompare]_vars

\* a run has been compared with itself
SelfCompared == report.variant # "none" /\ baseline_alerts = refined_alerts

\* the reduction percentage of the report
ReductionPct ==
    IF report.variant = "django" THEN report.summary.reduction_rate
    ELSE report.summary.percent_reduction

RemovedScores ==
    LET removed == SelectSeq(report.granular_diff, LAMBDA e : e.status = "removed")
    IN  [k \in 1..Len(removed) |->
            IF report.variant = "django" THEN removed[k].risk_score
            ELSE removed[k].max_risk_score]

\* C21: the report's risk_score is the mean of the ten highest risk scores of
\* the removed entries of the diff, and 0 when no entry is removed.
C21_RiskScoreOverRemoved ==
    report.variant # "none" =>
        report.risk_analysis.risk_score = MeanTopRisks(RemovedScores)

----------------------------------------------------------------------------
(* Risk-gap analysis: RiskEngine.analyze_risk_gap (Django and backend)      *)

MaxStored == 2        \* stored alerts of the baseline run

\* scenario_description / alert_description of an alert
Descriptions == {<<"Tuition", "payments">>, <<"large", "cash">>}

\* the transaction that triggered an alert
TriggerChoices ==
    {Transaction(Narratives["tuition"], EducationCap, <<"Oxford", "University">>, 0),
     Transaction(Narratives["tuition"], 80000, <<>>, 0),
     Transaction(Narratives["loan"], 30000, <<>>, 0),
     Transaction(Narratives["other"], 30000, <<>>, 0)}

\* hypothetical rule lists of an analysis
GapRuleLists ==
    {<<>>, <<RuleEducation>>, <<RuleLoan>>, <<RuleOther>>, <<RuleEducation, RuleAny>>}

\* customer c1 is a politically exposed person
IsPep(c) == c = "c1"

\* the stored alert with the next alert_id
StoredAlert(id, c, d, t, ex) ==
    [alert_id |-> id, customer_id |-> c, description |-> d, txn |-> t,
     excluded |-> ex,
     exclusion_reason |-> IF ex THEN ExclusionReason(LoanPayment) ELSE NoReason,
     lookback |-> ContextsOf(<<t>>)]

\* "if 'education' in excluded_events and ('tuition' in narrative or
\* 'university' in narrative)"
IsExcluded(rule, alert) ==
    LET narrative == LowerStr(alert.description)
    IN  /\ "education" \in rule.excluded_events
        /\ (ContainsStr(narrative, <<"tuition">>)
            \/ ContainsStr(narrative, <<"university">>))

Max0(x) == IF x > 0 THEN x ELSE 0

\* Django _calculate_alert_risk with reason "Education Exclusion"
DjangoAlertRisk(alert) ==
    Max0((IF alert.txn.amount > 50000 THEN 15 ELSE 0)
         + (IF IsPep(alert.customer_id) THEN 25 ELSE 0))

\* backend _calculate_alert_risk with reason "Education Exclusion"
BackendAlertRisk(alert) ==
    Max0((IF alert.txn.amount > 50000 THEN 15 ELSE 0)
         + (IF alert.txn.beneficiary = <<>> THEN 0
            ELSE IF is_verified_entity(alert.txn.beneficiary, "University")
                 THEN -5 ELSE 25)
         + (IF IsPep(alert.customer_id) THEN 25 ELSE 0))

GapEntry(alert, score) == [alert_id |-> alert.alert_id, score |-> score]

\* Django "for rule in refinements": the entry of the first rule that excludes
\* the alert ("break"), or none
RECURSIVE DjangoRuleLoop(_, _)
DjangoRuleLoop(refinements, alert) ==
    IF refinements = <<>> THEN <<>>
    ELSE IF Head(refinements).type = "event_based" /\ IsExcluded(Head(refinements), alert)
         THEN <<GapEntry(alert, DjangoAlertRisk(alert))>>
         ELSE DjangoRuleLoop(Tail(refinements), alert)

\* Django "for alert in baseline_alerts"
RECURSIVE DjangoAlertLoop(_, _)
DjangoAlertLoop(refinements, list) ==
    IF list = <<>> THEN <<>>
    ELSE DjangoRuleLoop(refinements, Head(list))
         \o DjangoAlertLoop(refinements, Tail(list))

\* backend "for _, alert in baseline_alerts_df.iterrows()" under one rule
RECURSIVE BackendAlertLoop(_, _)
BackendAlertLoop(rule, list) ==
    IF list = <<>> THEN <<>>
    ELSE (IF IsExcluded(rule, Head(list))
          THEN <<GapEntry(Head(list), BackendAlertRisk(Head(list)))>>
          ELSE <<>>)
         \o BackendAlertLoop(rule, Tail(list))

\* backend "for rule in refinements"
RECURSIVE BackendRuleLoop(_, _)
BackendRuleLoop(refinements, list) ==
    IF refinements = <<>> THEN <<>>
    ELSE (IF Head(refinements).type = "event_based"
          THEN BackendAlertLoop(Head(refinements), list)
          ELSE <<>>)
         \o BackendRuleLoop(Tail(refinements), list)

\* the result of analyze_risk_gap from the list excluded_alerts
GapResult(v, refinements, excluded_alerts) ==
    LET risk_score_total ==
            SumSeq([k \in 1..Len(excluded_alerts) |-> excluded_alerts[k].score])
    IN  [variant |-> v,
         refinements |-> refinements,
         excluded_alerts |-> excluded_alerts,
         risk_score_total |-> risk_score_total,
         risk_score |-> IF risk_score_total < 100 THEN risk_score_total ELSE 100,
         excluded_count |-> Len(excluded_alerts)]

\* the stored alerts after an analysis that wrote its verdicts to them
AlertsMarkedExcluded(list, excluded_alerts) ==
    [k \in 1..Len(list) |->
        IF \E i \in 1..Len(excluded_alerts) :
              excluded_alerts[i].alert_id = list[k].alert_id
        THEN [list[k] EXCEPT !.excluded = TRUE,
                             !.exclusion_reason = ExclusionReason(EduVerified)]
        ELSE list[k]]

\* the stored alerts after an analysis: the engines only read them
AlertsAfterAnalysis(list, excluded_alerts) == list

\* an alert of the baseline run is stored, with its log row when excluded
StoreAlert(c, d, t, ex) ==
    /\ gap.variant = "none"
    /\ Len(stored) < MaxStored
    /\ stored' = Append(stored, StoredAlert(Len(stored) + 1, c, d, t, ex))
    /\ stored_logs' =
          IF ex THEN Append(stored_logs,
                            LogRow(StoredAlert(Len(stored) + 1, c, d, t, ex), "r_loan"))
          ELSE stored_logs
    /\ UNCHANGED gap
    /\ UNCHANGED <<engineVars, persistVars, refineVars, filterVars, compareVars, chunkVars, opsVars>>

\* RiskEngine.analyze_risk_gap (Django)
DjangoRiskGap(refinements) ==
    /\ gap.variant = "none"
    /\ gap' = GapResult("django", refinements, DjangoAlertLoop(refinements, stored))
    /\ stored' = AlertsAfterAnalysis(stored, DjangoAlertLoop(refinements, stored))
    /\ UNCHANGED stored_logs
    /\ UNCHANGED <<engineVars, persistVars, refineVars, filterVars, compareVars, chunkVars, opsVars>>

\* RiskEngine.analyze_risk_gap (backend)
BackendRiskGap(refinements) ==
    /\ gap.variant = "none"
    /\ gap' = GapResult("backend", refinements, BackendRuleLoop(refinements, stored))
    /\ stored' = AlertsAfterAnalysis(stored, BackendRuleLoop(refinements, stored))
    /\ UNCHANGED stored_logs
    /\ UNCHANGED <<engineVars, persistVars, refineVars, filterVars, compareVars, chunkVars, opsVars>>

NextRisk ==
    \/ \E c \in Customers, d \in Descriptions, t \in TriggerChoices, ex \in BOOLEAN :
          StoreAlert(c, d, t, ex)
    \/ \E refinements \in GapRuleLists : DjangoRiskGap(refinements)
    \/ \E refinements \in GapRuleLists : BackendRiskGap(refinements)

SpecRisk == Init /\ [][NextRisk]_vars

\* the alerts the analysis counts as would-be-excluded
CountedExcluded ==
    {gap.excluded_alerts[i].alert_id : i \in 1..Len(gap.excluded_alerts)}

\* the alerts the refinement layer marks excluded under the same rules
RefinementExcluded ==
    LET before == [k \in 1..Len(stored) |->
                      [stored[k] EXCEPT !.excluded = FALSE,
                                        !.exclusion_reason = NoReason]]
        after == apply_refinements(before, gap.refinements, <<>>, TRUE).alerts
    IN  {after[k].alert_id : k \in {j \in 1..Len(after) : after[j].excluded}}

\* C22: the alerts a risk-gap analysis counts as would-be-excluded are exactly
\* the alerts the refinement layer marks excluded when it applies the same
\* rules to the same alerts.
C22_RiskGapMatchesRefinement ==
    gap.variant # "none" => CountedExcluded = RefinementExcluded

NextAnalysis ==
    \/ /\ stored = <<>> /\ gap.variant = "none"
       /\ NextCompare
    \/ /\ baseline_alerts = <<>> /\ refined_alerts = <<>> /\ report.variant = "none"
       /\ NextRisk

SpecAnalysis == Init /\ [][NextAnalysis]_vars

\* a risk analysis or a comparison returns in this step
AnalysisReturns == gap' # gap \/ report' # report

\* C23: a risk analysis or a comparison leaves every stored alert (its
\* excluded flag and exclusion_reason included) and every stored exclusion
\* log row as it was before the call.
C23_EnginesReadOnly ==
    [][AnalysisReturns =>
          /\ stored' = stored
          /\ stored_logs' = stored_logs
          /\ baseline_alerts' = baseline_alerts
          /\ refined_alerts' = refined_alerts
          /\ db_alerts' = db_alerts
          /\ db_logs' = db_logs]_vars

\* a risk analysis has counted an alert as would-be-excluded, and the stored
\* alert is still not excluded
C23_Witness ==
    /\ gap.variant # "none"
    /\ \E k \in 1..Len(stored) :
          /\ stored[k].alert_id \in CountedExcluded
          /\ ~stored[k].excluded
          /\ stored[k].exclusion_reason = NoReason

----------------------------------------------------------------------------
(* legacy chunked run, statement by statement: the bulk inserts of          *)
(* _run_batch join the session's open transaction, db.commit() stores them, *)
(* db.rollback() and the loss of the connection discard them                *)

\* bulk_insert_mappings followed by a commit of its own
BulkInsertAutocommit(table, mappings) ==
    [table |-> table \o mappings, pending |-> <<>>]

\* bulk_insert_mappings: the rows are written in the open transaction
BulkInsert(table, mappings) == [table |-> table, pending |-> mappings]

\* _run_batch up to bulk_insert_mappings(Alert, alert_mappings)
ChunkInsertAlerts(out, bad) ==
    /\ InBatchLoop
    /\ batch_i < Len(all_cust_ids)
    /\ pending.stage = "none"
    /\ \A k \in 1..Len(out) : out[k].scenario_id \notin bad
    /\ errors' = errors \cup {[batch |-> batch_i, scenario_id |-> sc] : sc \in bad}
    /\ run_status' = IF bad = {} THEN run_status
                     ELSE AfterScenarioError(sidx, run_status).run_status
    /\ LET deduplicated_alerts == Deduplicate(BatchAlerts(out, next_id), {})
           w == BulkInsert(db_alerts, deduplicated_alerts)
       IN  /\ db_alerts' = w.table
           /\ pending' = [stage |-> "alerts", alerts |-> w.pending, logs |-> <<>>,
                          batch |-> deduplicated_alerts]
    /\ next_id' = next_id + Len(out)
    /\ UNCHANGED <<variant, scenarios_run, total_alerts, pc, sidx, batch_i,
                   all_alerts, db_logs, dataset>>
    /\ UNCHANGED engineVars
    /\ UNCHANGED <<refineVars, filterVars, compareVars, riskVars, opsVars>>

\* bulk_insert_mappings(AlertExclusionLog, exclusion_mappings)
ChunkInsertLogs ==
    /\ InBatchLoop
    /\ pending.stage = "alerts"
    /\ LET w == BulkInsert(db_logs, ExclusionRows(pending.batch))
       IN  /\ db_logs' = w.table
           /\ pending' = [pending EXCEPT !.stage = "logs", !.logs = w.pending]
    /\ UNCHANGED <<variant, scenarios_run, run_status, total_alerts, pc, sidx,
                   batch_i, all_alerts, next_id, db_alerts, dataset, errors>>
    /\ UNCHANGED engineVars
    /\ UNCHANGED <<refineVars, filterVars, compareVars, riskVars, opsVars>>

\* self.db.commit() of _run_batch, then the progress commit of the loop
ChunkCommit ==
    /\ InBatchLoop
    /\ pending.stage = "logs"
    /\ db_alerts' = db_alerts \o pending.alerts
    /\ db_logs' = db_logs \o pending.logs
    /\ pending' = NoPending
    /\ batch_i' = batch_i + BATCH_SIZE
    /\ UNCHANGED <<variant, scenarios_run, run_status, total_alerts, pc, sidx,
                   all_alerts, next_id, dataset, errors>>
    /\ UNCHANGED engineVars
    /\ UNCHANGED <<refineVars, filterVars, compareVars, riskVars, opsVars>>

\* an exception anywhere in the batch loop: the handler of execute_run rolls
\* the open transaction back and commits status "failed"
ChunkFails ==
    /\ InBatchLoop
    /\ batch_i < Len(all_cust_ids)
    /\ pending' = NoPending
    /\ run_status' = "failed"
    /\ pc' = "done"
    /\ UNCHANGED <<variant, scenarios_run, total_alerts, sidx, batch_i,
                   all_alerts, next_id, db_alerts, db_logs, dataset, errors>>
    /\ UNCHANGED engineVars
    /\ UNCHANGED <<refineVars, filterVars, compareVars, riskVars, opsVars>>

\* the run is aborted (the worker dies): the database discards the open
\* transaction
ChunkAbort ==
    /\ InBatchLoop
    /\ pending' = NoPending
    /\ pc' = "crashed"
    /\ UNCHANGED <<variant, scenarios_run, run_status, total_alerts, sidx, batch_i,
                   all_alerts, next_id, db_alerts, db_logs, dataset, errors>>
    /\ UNCHANGED engineVars
    /\ UNCHANGED <<refineVars, filterVars, compareVars, riskVars, opsVars>>

NextChunk ==
    \/ \E sl \in ScenarioLists, ds \in Datasets : CreateRun("legacy", sl, ds)
    \/ StartRun
    \/ \E out \in BatchOutputs(batch_i, scenarios_run, MaxAlerts - next_id),
          bad \in SUBSET {scenarios_run[k] : k \in 1..Len(scenarios_run)} :
          ChunkInsertAlerts(out, bad)
    \/ ChunkInsertLogs
    \/ ChunkCommit
    \/ ChunkFails
    \/ ChunkAbort
    \/ LegacyComplete

SpecChunk == Init /\ [][NextChunk]_vars

\* the stored rows are kept, and rows are added only as one whole chunk: its
\* alerts together with the log rows of its excluded alerts
ChunkStep ==
    \/ db_alerts' = db_alerts /\ db_logs' = db_logs
    \/ /\ pending.stage = "logs"
       /\ db_alerts' = db_alerts \o pending.batch
       /\ db_logs' = db_logs \o ExclusionRows(pending.batch)

\* C24: in a chunked run the alerts and log rows of every committed chunk stay
\* stored whatever happens later (failure, abort), and a chunk is stored whole
\* or not at all: the stored tables only grow, by the alerts of one chunk
\* together with the log rows of its excluded alerts.
C24_ChunkAtomicity ==
    /\ [][ChunkStep]_vars
    /\ [](db_logs = ExclusionRows(db_alerts))

\* a run that failed in its second chunk: the first chunk's alerts, one of
\* them excluded, and its log row are stored
C24_Witness ==
    /\ variant = "legacy"
    /\ run_status = "failed"
    /\ batch_i = BATCH_SIZE
    /\ Len(db_alerts) > Len(db_logs)
    /\ db_logs # <<>>

----------------------------------------------------------------------------
(* The status life cycle of a run when its execution is requested again *)

\* execute_run called for a run whose earlier execution has returned: the run
\* row is fetched and, whatever its status, run.status = "running" is written
\* and committed; the locals of the new call start fresh
ExecuteAgain ==
    /\ run_status \in {"completed", "failed"}
    /\ pc = "done"
    /\ run_status' = "running"
    /\ pc' = IF variant = "legacy" THEN "batches" ELSE "scenarios"
    /\ sidx' = 1
    /\ batch_i' = 0
    /\ all_alerts' = <<>>
    /\ UNCHANGED <<variant, scenarios_run, total_alerts, next_id, db_alerts,
                   db_logs, dataset, errors>>
    /\ UNCHANGED engineVars
    /\ UNCHANGED studyVars

\* alerts the engine emits over all executions of the run
MaxRerunAlerts == 1

AlertsLeft == IF next_id < MaxRerunAlerts THEN MaxRerunAlerts - next_id ELSE 0

NextLifecycle ==
    \/ \E v \in Variants, sl \in ScenarioLists, ds \in Datasets : CreateRun(v, sl, ds)
    \/ StartRun
    \/ ExecuteAgain
    \/ RunSetupFails
    \/ DjangoScenarioFails
    \/ BackendScenarioFails
    \/ \E out \in {o \in DjangoOutputs : Len(o) <= AlertsLeft}, rules \in RuleLists :
          DjangoExecuteScenario(out, rules, TRUE)
    \/ DjangoSaveResults
    \/ DjangoSaveFails
    \/ DjangoComplete
    \/ \E out \in SeqsUpTo(PandasAlertsOf(Customers), AlertsLeft) :
          BackendExecuteScenario(out)
    \/ BackendPersist
    \/ BackendPersistFails
    \/ BackendComplete
    \/ \E out \in BatchOutputs(batch_i, scenarios_run, AlertsLeft) :
          LegacyRunBatch(out, {})
    \/ LegacyBatchFails
    \/ LegacyComplete

SpecLifecycle == Init /\ [][NextLifecycle]_vars

StatusMoves == {<<"none", "pending">>, <<"pending", "running">>,
                <<"running", "completed">>, <<"running", "failed">>}

\* C26: the status of a run only moves pending -> running -> completed or
\* pending -> running -> failed, and a completed or failed run keeps its
\* status for ever, also when its execution is requested a second time
C26_StatusLifecycle ==
    [][run_status' # run_status => <<run_status, run_status'>> \in StatusMoves]_vars

----------------------------------------------------------------------------
(* total_alerts of a finished run *)

----------------------------------------------------------------------------
(* TTLManager.cleanup_expired: four statements in one database transaction, *)
(* committed at the end, rolled back by a dry run or an exception.  The      *)
(* tables are what other sessions observe; session.view is what the cleanup  *)
(* itself sees while its transaction is open.                                *)

MaxTtlAlerts == 2     \* alerts stored in the cleanup study

PlainName(c) == [prefix |-> "", text |-> c]
\* 'ANONYMIZED-' || SUBSTRING(customer_id, 1, 8)
AnonymizedName(customer_id) == [prefix |-> "ANONYMIZED-", text |-> customer_id]

Committed == TableView(data_uploads, customer_rows, transaction_rows, alert_rows)

\* an upload with one customer and its transactions is stored
IngestData(c, u) ==
    /\ session.step = 0
    /\ data_uploads[u].status \in {"none", "active"}
    /\ ~data_uploads[u].due
    /\ customer_rows[c] = NoRow
    /\ data_uploads' = [data_uploads EXCEPT ![u].status = "active"]
    /\ customer_rows' = [customer_rows EXCEPT ![c] = u]
    /\ transaction_rows' = transaction_rows \cup {[customer_id |-> c, upload_id |-> u]}
    /\ UNCHANGED <<alert_rows, session, purged>>
    /\ UNCHANGED <<engineVars, persistVars, refineVars, filterVars, compareVars, riskVars>>
    /\ UNCHANGED <<chunkVars, budgetVars, lockVars>>

\* a simulation run stores an alert of customer c
RaiseAlert(c) ==
    /\ session.step = 0
    /\ customer_rows[c] # NoRow
    /\ Len(alert_rows) < MaxTtlAlerts
    /\ alert_rows' = Append(alert_rows,
                            [customer_id |-> c, customer_name |-> PlainName(c),
                             is_anonymized |-> FALSE, subject |-> c])
    /\ UNCHANGED <<data_uploads, customer_rows, transaction_rows, session, purged>>
    /\ UNCHANGED <<engineVars, persistVars, refineVars, filterVars, compareVars, riskVars>>
    /\ UNCHANGED <<chunkVars, budgetVars, lockVars>>

\* time passes expires_at of upload u
UploadExpires(u) ==
    /\ session.step = 0
    /\ data_uploads[u].status = "active"
    /\ ~data_uploads[u].due
    /\ data_uploads' = [data_uploads EXCEPT ![u].due = TRUE]
    /\ UNCHANGED <<customer_rows, transaction_rows, alert_rows, session, purged>>
    /\ UNCHANGED <<engineVars, persistVars, refineVars, filterVars, compareVars, riskVars>>
    /\ UNCHANGED <<chunkVars, budgetVars, lockVars>>

\* SELECT upload_id FROM data_uploads WHERE expires_at < :now AND status = 'active'
ExpiredIds(uploads) == {u \in TtlUploads : uploads[u].status = "active" /\ uploads[u].due}

\* SELECT customer_id FROM customers WHERE upload_id = ANY(:ids)
CustomersOfUploads(view, ids) == {c \in Customers : view.customers[c] \in ids}

\* STEP 1: UPDATE alerts SET customer_name = ..., is_anonymized = true
\*         WHERE customer_id IN (...) AND is_anonymized = false
AnonymizeAlerts(view, ids) ==
    [view EXCEPT !.alerts =
        [k \in 1..Len(view.alerts) |->
            IF /\ view.alerts[k].customer_id \in CustomersOfUploads(view, ids)
               /\ ~view.alerts[k].is_anonymized
            THEN [view.alerts[k] EXCEPT
                     !.customer_name = AnonymizedName(view.alerts[k].customer_id),
                     !.is_anonymized = TRUE]
            ELSE view.alerts[k]]]

\* STEP 2: DELETE FROM transactions WHERE upload_id = ANY(:ids)
DeleteTransactions(view, ids) ==
    [view EXCEPT !.transactions = {t \in view.transactions : t.upload_id \notin ids}]

\* STEP 3: DELETE FROM customers WHERE upload_id = ANY(:ids); with the
\* foreign key's SET NULL the alerts of a deleted customer lose customer_id
DeleteCustomers(view, ids, set_null) ==
    [view EXCEPT
        !.customers = [c \in Customers |->
            IF view.customers[c] \in ids THEN NoRow ELSE view.customers[c]],
        !.alerts = [k \in 1..Len(view.alerts) |->
            IF set_null /\ view.alerts[k].customer_id \in CustomersOfUploads(view, ids)
            THEN [view.alerts[k] EXCEPT !.customer_id = NullId]
            ELSE view.alerts[k]]]

\* STEP 4: UPDATE data_uploads SET status = 'expired' WHERE upload_id = ANY(:ids)
MarkExpired(view, ids) ==
    [view EXCEPT !.uploads = [u \in TtlUploads |->
        IF u \in ids THEN [view.uploads[u] EXCEPT !.status = "expired"]
        ELSE view.uploads[u]]]

\* the order in which cleanup_expired executes its statements
CleanupOrderDeleteFirst == <<"customers", "transactions", "anonymize", "uploads">>

CleanupOrder == <<"anonymize", "transactions", "customers", "uploads">>

Statement(name, view, ids, set_null) ==
    CASE name = "anonymize" -> AnonymizeAlerts(view, ids)
      [] name = "transactions" -> DeleteTransactions(view, ids)
      [] name = "customers" -> DeleteCustomers(view, ids, set_null)
      [] name = "uploads" -> MarkExpired(view, ids)

\* cleanup_expired finds expired uploads and starts its transaction (with no
\* expired upload it returns zero counts and changes nothing)
CleanupBegin(dry_run) ==
    /\ session.step = 0
    /\ ExpiredIds(data_uploads) # {}
    /\ session' = [step |-> 1, dry_run |-> dry_run,
                   expired_ids |-> ExpiredIds(data_uploads), view |-> Committed]
    /\ UNCHANGED <<data_uploads, customer_rows, transaction_rows, alert_rows, purged>>
    /\ UNCHANGED <<engineVars, persistVars, refineVars, filterVars, compareVars, riskVars>>
    /\ UNCHANGED <<chunkVars, budgetVars, lockVars>>

\* the next statement of the cleanup is executed inside the transaction
CleanupStatement(set_null) ==
    /\ session.step \in 1..Len(CleanupOrder)
    /\ session' = [session EXCEPT
                      !.view = Statement(CleanupOrder[session.step], session.view,
                                         session.expired_ids, set_null),
                      !.step = session.step + 1]
    /\ UNCHANGED <<data_uploads, customer_rows, transaction_rows, alert_rows, purged>>
    /\ UNCHANGED <<engineVars, persistVars, refineVars, filterVars, compareVars, riskVars>>
    /\ UNCHANGED <<chunkVars, budgetVars, lockVars>>

\* a statement or the commit raises: the transaction is rolled back
CleanupFails ==
    /\ session.step > 0
    /\ session' = NoSession
    /\ UNCHANGED <<data_uploads, customer_rows, transaction_rows, alert_rows, purged>>
    /\ UNCHANGED <<engineVars, persistVars, refineVars, filterVars, compareVars, riskVars>>
    /\ UNCHANGED <<chunkVars, budgetVars, lockVars>>

\* dry_run: db.rollback()
CleanupDryRunEnds ==
    /\ session.step = Len(CleanupOrder) + 1
    /\ session.dry_run
    /\ session' = NoSession
    /\ UNCHANGED <<data_uploads, customer_rows, transaction_rows, alert_rows, purged>>
    /\ UNCHANGED <<engineVars, persistVars, refineVars, filterVars, compareVars, riskVars>>
    /\ UNCHANGED <<chunkVars, budgetVars, lockVars>>

\* db.commit(): the tables become what the transaction made of them
CleanupCommit ==
    /\ session.step = Len(CleanupOrder) + 1
    /\ ~session.dry_run
    /\ data_uploads' = session.view.uploads
    /\ customer_rows' = session.view.customers
    /\ transaction_rows' = session.view.transactions
    /\ alert_rows' = session.view.alerts
    /\ purged' = purged \cup {c \in Customers :
                                 customer_rows[c] # NoRow /\ session.view.customers[c] = NoRow}
    /\ session' = NoSession
    /\ UNCHANGED <<engineVars, persistVars, refineVars, filterVars, compareVars, riskVars>>
    /\ UNCHANGED <<chunkVars, budgetVars, lockVars>>

NextCleanup ==
    \/ \E c \in Customers, u \in TtlUploads : IngestData(c, u)
    \/ \E c \in Customers : RaiseAlert(c)
    \/ \E u \in TtlUploads : UploadExpires(u)
    \/ \E dry_run \in BOOLEAN : CleanupBegin(dry_run)
    \/ \E set_null \in BOOLEAN : CleanupStatement(set_null)
    \/ CleanupFails
    \/ CleanupDryRunEnds
    \/ CleanupCommit

SpecCleanup == Init /\ [][NextCleanup]_vars

\* customers a cleanup has deleted, as other sessions see it
DeletedCommitted == {c \in purged : customer_rows[c] = NoRow}

\* customers deleted as the running cleanup itself sees it
DeletedInSession ==
    {c \in Customers : session.step > 0 /\ session.view.customers[c] = NoRow
                       /\ (customer_rows[c] # NoRow \/ c \in purged)}

AllAnonymized(alert_list, deleted) ==
    \A k \in 1..Len(alert_list) :
        alert_list[k].subject \in deleted =>
            /\ alert_list[k].is_anonymized
            /\ alert_list[k].customer_name = AnonymizedName(alert_list[k].subject)

\* C28: no alert that is not anonymized refers to a customer the cleanup has
\* deleted: not in the stored tables (after a commit, a dry run or a failure),
\* and not inside the cleanup's own transaction, where the alerts of a
\* customer are anonymized before the customer row is deleted
C28_AnonymizedBeforeDelete ==
    /\ AllAnonymized(alert_rows, DeletedCommitted)
    /\ session.step > 0 => AllAnonymized(session.view.alerts, DeletedInSession)

C28_Witness ==
    /\ session.step = 0
    /\ \E k \in 1..Len(alert_rows) :
          /\ alert_rows[k].subject \in DeletedCommitted
          /\ alert_rows[k].is_anonymized
    /\ \E k \in 1..Len(alert_rows) : ~alert_rows[k].is_anonymized

----------------------------------------------------------------------------
(* CostBasedRateLimiter.check_budget of one user on one day, called by      *)
(* several server workers; usage is the value of the user's Redis key       *)
(* rate_limit:cost:<user>:<date>, read as 0 while the key does not exist.    *)

DAILY_BUDGET == 1000
DefaultCost == 1
MaxGranted == 1100    \* requests are issued while granted stays below this

Endpoints == {"/api/simulation/run", "/api/comparison/compare"}

\* ENDPOINT_COSTS.get(endpoint, 1)
ENDPOINT_COSTS(endpoint) ==
    CASE endpoint = "/api/simulation/run" -> 100
      [] endpoint = "/api/comparison/compare" -> 50
      [] OTHER -> DefaultCost

\* check_budget, first half: cost looked up, current_usage = redis_client.get(key)
BudgetRead(w, endpoint) ==
    /\ requests[w].pc = "idle"
    /\ granted < MaxGranted
    /\ requests' = [requests EXCEPT ![w] =
                       [pc |-> "read", cost |-> ENDPOINT_COSTS(endpoint),
                        current_usage |-> usage]]
    /\ UNCHANGED <<usage, granted>>
    /\ UNCHANGED <<engineVars, persistVars, refineVars, filterVars, compareVars, riskVars>>
    /\ UNCHANGED <<chunkVars, cleanupVars, lockVars>>

new_usage(w) == requests[w].current_usage + requests[w].cost

\* check_budget, second half, allowed: redis_client.setex(key, 1 day, new_usage);
\* the wrapped endpoint is then executed
BudgetAllow(w) ==
    /\ requests[w].pc = "read"
    /\ new_usage(w) <= DAILY_BUDGET
    /\ usage' = new_usage(w)
    /\ granted' = granted + requests[w].cost
    /\ requests' = [requests EXCEPT ![w] = IdleRequest]
    /\ UNCHANGED <<engineVars, persistVars, refineVars, filterVars, compareVars, riskVars>>
    /\ UNCHANGED <<chunkVars, cleanupVars, lockVars>>

\* check_budget, second half, not allowed: HTTP 429, nothing is written
BudgetDeny(w) ==
    /\ requests[w].pc = "read"
    /\ new_usage(w) > DAILY_BUDGET
    /\ requests' = [requests EXCEPT ![w] = IdleRequest]
    /\ UNCHANGED <<usage, granted>>
    /\ UNCHANGED <<engineVars, persistVars, refineVars, filterVars, compareVars, riskVars>>
    /\ UNCHANGED <<chunkVars, cleanupVars, lockVars>>

NextBudget ==
    \/ \E w \in Workers, endpoint \in Endpoints : BudgetRead(w, endpoint)
    \/ \E w \in Workers : BudgetAllow(w)
    \/ \E w \in Workers : BudgetDeny(w)

SpecBudget == Init /\ [][NextBudget]_vars

\* C29: the total cost of the requests the rate limiter allowed for the user
\* on the day never exceeds DAILY_BUDGET, also when requests of the user are
\* checked concurrently
C29_BudgetNeverExceeded == granted <= DAILY_BUDGET

----------------------------------------------------------------------------
(* acquire_lock: a Redis key set with NX and an expiry, released in the     *)
(* finally block by a GET followed by a DELETE.  lock_key.owner records the  *)
(* caller whose SET created the key that exists now.                         *)

\* values of str(time.time()) at the moments the callers enter
LockTimes == {"t1", "t2"}

\* acquire_lock is entered: identifier = str(time.time())
EnterLock(p, t) ==
    /\ callers[p].pc = "out"
    /\ callers' = [callers EXCEPT ![p] =
                      [pc |-> "spin", identifier |-> t, current_value |-> NoValue]]
    /\ UNCHANGED lock_key
    /\ UNCHANGED <<engineVars, persistVars, refineVars, filterVars, compareVars, riskVars>>
    /\ UNCHANGED <<chunkVars, cleanupVars, budgetVars>>

\* r.set(lock_key, identifier, ex=lock_timeout, nx=True) succeeds: yield True
AcquireLock(p) ==
    /\ callers[p].pc = "spin"
    /\ lock_key = NoLock
    /\ lock_key' = [value |-> callers[p].identifier, owner |-> p]
    /\ callers' = [callers EXCEPT ![p].pc = "held"]
    /\ UNCHANGED <<engineVars, persistVars, refineVars, filterVars, compareVars, riskVars>>
    /\ UNCHANGED <<chunkVars, cleanupVars, budgetVars>>

\* the key stays taken until end_time: yield False
AcquireTimesOut(p) ==
    /\ callers[p].pc = "spin"
    /\ lock_key # NoLock
    /\ callers' = [callers EXCEPT ![p].pc = "failed"]
    /\ UNCHANGED lock_key
    /\ UNCHANGED <<engineVars, persistVars, refineVars, filterVars, compareVars, riskVars>>
    /\ UNCHANGED <<chunkVars, cleanupVars, budgetVars>>

\* lock_timeout seconds after the SET, Redis removes the key
LockExpires ==
    /\ lock_key # NoLock
    /\ lock_key' = NoLock
    /\ UNCHANGED callers
    /\ UNCHANGED <<engineVars, persistVars, refineVars, filterVars, compareVars, riskVars>>
    /\ UNCHANGED <<chunkVars, cleanupVars, budgetVars>>

\* the with-body ends; finally: current_value = r.get(lock_key)
LeaveLock(p) ==
    /\ callers[p].pc \in {"held", "failed"}
    /\ callers' = [callers EXCEPT ![p].pc = "release",
                                  ![p].current_value = lock_key.value]
    /\ UNCHANGED lock_key
    /\ UNCHANGED <<engineVars, persistVars, refineVars, filterVars, compareVars, riskVars>>
    /\ UNCHANGED <<chunkVars, cleanupVars, budgetVars>>

\* finally: if current_value == identifier: r.delete(lock_key)
ReleaseLock(p) ==
    /\ callers[p].pc = "release"
    /\ lock_key' = IF callers[p].current_value = callers[p].identifier
                   THEN NoLock ELSE lock_key
    /\ callers' = [callers EXCEPT ![p] = OutsideLock]
    /\ UNCHANGED <<engineVars, persistVars, refineVars, filterVars, compareVars, riskVars>>
    /\ UNCHANGED <<chunkVars, cleanupVars, budgetVars>>

NextLock ==
    \/ \E p \in Callers, t \in LockTimes : EnterLock(p, t)
    \/ \E p \in Callers : AcquireLock(p)
    \/ \E p \in Callers : AcquireTimesOut(p)
    \/ LockExpires
    \/ \E p \in Callers : LeaveLock(p)
    \/ \E p \in Callers : ReleaseLock(p)

SpecLock == Init /\ [][NextLock]_vars

\* caller p leaves acquire_lock and its release deletes the key
DeletesKey(p) ==
    /\ callers[p].pc = "release"
    /\ callers'[p].pc = "out"
    /\ lock_key # NoLock
    /\ lock_key' = NoLock

\* C30: a caller leaving acquire_lock (after holding the lock, after its lock
\* timed out, or after failing to acquire) deletes the lock key only if the
\* key is its own, never while a different caller holds the lock
C30_ReleaseOnlyOwnLock ==
    [][\A p \in Callers : DeletesKey(p) => lock_key.owner = p]_vars

====
